---- MODULE Spec2Model ----
(***************************************************************************)
(* Model of LocalSimBroker (src/brokers.py): the simulated execution and   *)
(* accounting engine.  State = the broker object's fields; one action per  *)
(* public mutating operation.                                              *)
(*                                                                         *)
(* Numbers.  The program computes in Python floats.  Here every number is  *)
(* an exact rational [n |-> numerator, d |-> denominator > 0] in lowest    *)
(* terms, and + - * / < are the exact operations: float rounding error is  *)
(* abstracted away, everything else (order of evaluation, the cent         *)
(* rounding of round(x, 2), the 1e-9 threshold) is kept.                   *)
(*                                                                         *)
(* Input grid.  Quantities are small multiples of Lot = 5e-10 and prices   *)
(* are multiples of 1e5, so that a residual at or below the 1e-9 epsilon   *)
(* is reachable while notionals stay at dollar scale.  SpecShares runs the  *)
(* same operations on round lots, blocks and whole coins at market-scale   *)
(* prices, with symbols of every naming shape.                             *)
(***************************************************************************)
EXTENDS Integers, Sequences, FiniteSets, TLC

VARIABLES initial_cash, cash, positions, orders, ledger, current_prices, last,
          engine

vars == <<initial_cash, cash, positions, orders, ledger, current_prices, last,
          engine>>

(***************************************************************************)
(* Exact rational arithmetic standing for Python float arithmetic.         *)
(***************************************************************************)
\* Python None where a number is expected (no rational has denominator 0).
None == [n |-> 0, d |-> 0]

Abs(i) == IF i < 0 THEN 0 - i ELSE i

RECURSIVE GCD(_, _)
GCD(a, b) == IF b = 0 THEN a ELSE GCD(b, a % b)

Norm(n, d) ==
    LET g == GCD(Abs(n), d) IN [n |-> n \div g, d |-> d \div g]

R(n, d) == Norm(n, d)

Zero == [n |-> 0, d |-> 1]
One  == [n |-> 1, d |-> 1]

Add(x, y) ==
    LET g == GCD(x.d, y.d)
        l == (x.d \div g) * y.d
    IN  Norm(x.n * (l \div x.d) + y.n * (l \div y.d), l)

Neg(x) == [n |-> 0 - x.n, d |-> x.d]

Sub(x, y) == Add(x, Neg(y))

Mul(x, y) ==
    LET g1 == GCD(Abs(x.n), y.d)
        g2 == GCD(Abs(y.n), x.d)
    IN  [n |-> (x.n \div g1) * (y.n \div g2), d |-> (x.d \div g2) * (y.d \div g1)]

Inv(x) == IF x.n > 0 THEN [n |-> x.d, d |-> x.n] ELSE [n |-> 0 - x.d, d |-> 0 - x.n]

Div(x, y) == Mul(x, Inv(y))

\* a/b < c/d for b, d > 0, by integer parts and reciprocal remainders (no
\* cross product is formed).
RECURSIVE LtFrac(_, _, _, _)
LtFrac(a, b, c, d) ==
    LET qa == a \div b
        qc == c \div d
        ra == a % b
        rc == c % d
    IN  IF qa # qc THEN qa < qc
        ELSE IF rc = 0 THEN FALSE
        ELSE IF ra = 0 THEN TRUE
        ELSE LtFrac(d, rc, b, ra)

Lt(x, y) == LtFrac(x.n, x.d, y.n, y.d)

Le(x, y) == ~Lt(y, x)

Max(x, y) == IF Lt(x, y) THEN y ELSE x

Min(x, y) == IF Lt(y, x) THEN y ELSE x

\* Python round(x, 2): nearest cent, ties to the even cent.
Round2(x) ==
    LET t  == Mul(x, R(100, 1))
        fl == t.n \div t.d
        r  == t.n - fl * t.d
        k  == IF 2 * r < t.d THEN fl
              ELSE IF 2 * r > t.d THEN fl + 1
              ELSE IF fl % 2 = 0 THEN fl ELSE fl + 1
    IN  R(k, 100)

\* round(x * y, 2) for x, y >= 0.  A product of at most half a cent rounds to
\* 0.00 and is recognised without forming the product.
Round2Mul(x, y) ==
    IF x.n = 0 \/ y.n = 0 THEN Zero
    ELSE IF Le(x, Div(R(1, 200), y)) THEN Zero
    ELSE Round2(Mul(x, y))

\* str(x): the textual form of a number, as stored in order and account
\* records.  float(x) of a value that already is a float is the value itself
\* and is not written out in the model.
Str(x) == [str |-> x]

\* float(s) of a textual number.
Float(s) == s.str

(***************************************************************************)
(* Symbols are character sequences so that substring tests are computed.   *)
(***************************************************************************)
BTCUSD == <<"B", "T", "C", "/", "U", "S", "D">>
AAPL   == <<"A", "A", "P", "L">>

Symbols == {BTCUSD, AAPL}

RECURSIVE ContainsAt(_, _, _)
ContainsAt(s, sub, i) ==
    IF i + Len(sub) - 1 > Len(s) THEN FALSE
    ELSE IF SubSeq(s, i, i + Len(sub) - 1) = sub THEN TRUE
    ELSE ContainsAt(s, sub, i + 1)

\* Python `sub in s` for strings.
Contains(s, sub) == ContainsAt(s, sub, 1)

LowerCase == [a |-> "A", b |-> "B", c |-> "C", d |-> "D", e |-> "E", h |-> "H",
              l |-> "L", p |-> "P", s |-> "S", t |-> "T", u |-> "U"]

\* str.upper()
Upper(s) == [i \in 1..Len(s) |-> IF s[i] \in DOMAIN LowerCase THEN LowerCase[s[i]] ELSE s[i]]

(***************************************************************************)
(* Fee constants, LocalSimBroker.__init__                                  *)
(***************************************************************************)
CRYPTO_FEE_RATE == R(25, 10000)
SEC_FEE_RATE    == R(8, 1000000)
TAF_RATE        == R(166, 1000000)
TAF_MAX         == R(830, 100)
EPSILON         == R(1, 1000000000)
MIN_FEE         == R(1, 100)

crypto_suffixes == << <<"/", "U", "S", "D">>, <<"/", "B", "T", "C">>,
                      <<"/", "E", "T", "H">>, <<"/", "U", "S", "D", "T">> >>

_is_crypto(symbol) ==
    \E i \in 1..Len(crypto_suffixes) : Contains(Upper(symbol), crypto_suffixes[i])

(***************************************************************************)
(* Enum values of alpaca.trading.enums used by the simulator.              *)
(***************************************************************************)
BUY       == "buy"
SELL      == "sell"
MARKET    == "market"
LIMIT     == "limit"
FILLED    == "filled"
CRYPTO    == "crypto"
US_EQUITY == "us_equity"

(***************************************************************************)
(* Bounds and input grid.                                                  *)
(***************************************************************************)
MaxOrders == 2

Lot == R(1, 2000000000)

InitialCashSet == {R(8, 100)}

P1 == R(100000, 1)
P2 == R(200000, 1)

\* Prices written to the tape.
PriceSet == {P1, P2}

\* The price arguments of an order, <<order_type, limit_price, current_price>>:
\* market orders priced by the tape (no price, or the falsy 0.0) or by the
\* caller, limit orders with and without a limit price.
PriceArgs ==
    {<<MARKET, None, None>>, <<MARKET, None, Zero>>, <<MARKET, None, P2>>,
     <<LIMIT, P1, None>>, <<LIMIT, None, None>>}

\* Requested quantities (> 0).  Equities trade in single lots (one lot is
\* below the epsilon, two lots are the epsilon, three are above it), crypto
\* in multiples of 400 lots.
QtySet(symbol) ==
    IF _is_crypto(symbol)
    THEN {Mul(R(400, 1), Lot), Mul(R(800, 1), Lot)}
    ELSE {Lot, Mul(R(3, 1), Lot)}

(***************************************************************************)
(* The broker object.  positions is the dict in insertion order, one       *)
(* record per key; current_prices is the tape, a function on the symbols   *)
(* that have an entry.                                                     *)
(***************************************************************************)
Broker == [cash |-> cash, positions |-> positions, orders |-> orders,
           ledger |-> ledger, current_prices |-> current_prices,
           epoch |-> engine.epoch]

\* Index of symbol's entry in the positions dict, 0 when absent.
PosIndex(ps, symbol) ==
    IF \E i \in 1..Len(ps) : ps[i].symbol = symbol
    THEN CHOOSE i \in 1..Len(ps) : ps[i].symbol = symbol
    ELSE 0

PosKeys(ps) == {ps[i].symbol : i \in 1..Len(ps)}

\* dict.pop(symbol, None)
PosPop(ps, symbol) ==
    LET i == PosIndex(ps, symbol)
    IN  IF i = 0 THEN ps ELSE SubSeq(ps, 1, i - 1) \o SubSeq(ps, i + 1, Len(ps))

\* dict[symbol] = pos: an existing key keeps its place, a new key goes last.
PosPut(ps, symbol, pos) ==
    LET i == PosIndex(ps, symbol)
    IN  IF i = 0 THEN Append(ps, pos) ELSE [ps EXCEPT ![i] = pos]

\* self.current_prices.get(symbol)
TapeGet(tape, symbol) == IF symbol \in DOMAIN tape THEN tape[symbol] ELSE None

\* Python truthiness of an optional number: None and 0.0 are falsy.
Truthy(x) == x # None /\ x.n # 0

(***************************************************************************)
(* _update_position                                                        *)
(***************************************************************************)
DefaultPosition(symbol) ==
    [symbol |-> symbol, qty |-> Zero, avg_entry_price |-> Zero,
     asset_class |-> IF _is_crypto(symbol) THEN CRYPTO ELSE US_EQUITY]

\* Variant: the entry price is overwritten by the latest fill price.
NewAvgEntryPrice_Last(pos, qty, price) == price

\* Weighted average cost basis of a buy of qty at price into pos.
NewAvgEntryPrice(pos, qty, price) ==
    LET current_total_cost == Mul(pos.qty, pos.avg_entry_price)
        new_qty == Add(pos.qty, qty)
    IN  Div(Add(current_total_cost, Mul(qty, price)), new_qty)

\* Variant: only an exactly empty position is removed.
IsClosed_Zero(new_qty) == Le(new_qty, Zero)

\* Variant: a sold-out position is never removed.
IsClosed_Never(new_qty) == FALSE

\* Epsilon check of a sell: the remaining quantity counts as zero.
IsClosed(new_qty) == Le(new_qty, EPSILON)

_update_position(ps, symbol, qty, price, side) ==
    LET i   == PosIndex(ps, symbol)
        pos == IF i = 0 THEN DefaultPosition(symbol) ELSE ps[i]
    IN  IF side = BUY
        THEN PosPut(ps, symbol,
                    [pos EXCEPT !.avg_entry_price = NewAvgEntryPrice(pos, qty, price),
                                !.qty = Add(pos.qty, qty)])
        ELSE LET new_qty == Sub(pos.qty, qty)
             IN  IF IsClosed(new_qty)
                 THEN PosPop(ps, symbol)
                 ELSE PosPut(ps, symbol, [pos EXCEPT !.qty = new_qty])

(***************************************************************************)
(* submit_order                                                            *)
(***************************************************************************)
\* Variant: the tape price takes precedence over the supplied price.
RawPrice_TapeFirst(b, symbol, current_price) ==
    IF symbol \in DOMAIN b.current_prices THEN b.current_prices[symbol] ELSE current_price

\* kwargs.get('current_price') or self.current_prices.get(symbol)
RawPrice(b, symbol, current_price) ==
    IF Truthy(current_price) THEN current_price ELSE TapeGet(b.current_prices, symbol)

FillPrice(order_type, limit_price, raw_price) ==
    IF order_type = LIMIT THEN limit_price ELSE raw_price

TotalCashRequired(qty, fill_price) == Mul(qty, fill_price)

\* Variant: an order that needs all of the cash is rejected too.
InsufficientCash_Le(b, total_cash_required) == Le(b.cash, total_cash_required)

InsufficientCash(b, total_cash_required) == Lt(b.cash, total_cash_required)

\* Variant: the taker fee is charged in cash on top of the cost.
CashAfterBuy_PlusFee(b, total_cash_required) ==
    Sub(b.cash, Mul(total_cash_required, Add(One, CRYPTO_FEE_RATE)))

CashAfterBuy(b, total_cash_required) == Sub(b.cash, total_cash_required)

\* Variant: the requested quantity is credited whatever the asset class.
BuyFilledQty_NoFee(is_crypto, qty) == qty

\* Quantity credited to the position by a buy.
BuyFilledQty(is_crypto, qty) ==
    IF is_crypto THEN Mul(qty, Sub(One, CRYPTO_FEE_RATE)) ELSE qty

\* Variant: only a missing position is rejected.
InsufficientPosition_MissingOnly(b, symbol, qty) == PosIndex(b.positions, symbol) = 0

\* `not pos or float(pos['qty']) < qty`
InsufficientPosition(b, symbol, qty) ==
    LET i == PosIndex(b.positions, symbol)
    IN  i = 0 \/ Lt(b.positions[i].qty, qty)

\* Variant: the TAF is not capped.
SellFee_NoCap(is_crypto, qty, gross_proceeds) ==
    IF is_crypto
    THEN Mul(gross_proceeds, CRYPTO_FEE_RATE)
    ELSE Add(Max(MIN_FEE, Round2Mul(gross_proceeds, SEC_FEE_RATE)),
             Max(MIN_FEE, Round2Mul(qty, TAF_RATE)))

\* Cash fee of a sell.
SellFee(is_crypto, qty, gross_proceeds) ==
    IF is_crypto
    THEN Mul(gross_proceeds, CRYPTO_FEE_RATE)
    ELSE LET sec_fee == Max(MIN_FEE, Round2Mul(gross_proceeds, SEC_FEE_RATE))
             taf_fee == Min(Max(MIN_FEE, Round2Mul(qty, TAF_RATE)), TAF_MAX)
         IN  Add(sec_fee, taf_fee)

\* Variant: the gross proceeds are credited, the fee is only recorded.
CashAfterSell_Gross(b, gross_proceeds, fee_amt_cash) == Add(b.cash, gross_proceeds)

CashAfterSell(b, gross_proceeds, fee_amt_cash) ==
    Add(b.cash, Sub(gross_proceeds, fee_amt_cash))

\* uuid4(): the k-th value drawn while the broker fills its next order (order
\* id, client_order_id, asset_id); a value is never drawn twice. b.epoch is
\* how far the generator and the wall clock had advanced when the broker was
\* constructed.
uuid4(b, k) == b.epoch + 3 * Len(b.orders) + k

\* datetime.now() while the broker fills its next order; the clock never
\* goes back.
now(b) == b.epoch + Len(b.ledger)

\* Variant: the order is recorded as accepted but not yet filled.
OrderRecord_New(b, symbol, qty, filled_qty, side, order_type, limit_price, fill_price, fee_amt_cash) ==
    [id |-> uuid4(b, 1),
     client_order_id |-> uuid4(b, 2),
     symbol |-> symbol,
     asset_class |-> IF _is_crypto(symbol) THEN CRYPTO ELSE US_EQUITY,
     qty |-> Str(qty),
     filled_qty |-> Str(filled_qty),
     type |-> order_type,
     side |-> side,
     limit_price |-> IF Truthy(limit_price) THEN Str(limit_price) ELSE Str(None),
     filled_avg_price |-> Str(fill_price),
     status |-> "new",
     sim_fee_cash |-> fee_amt_cash]

\* The order record (asset_id, timestamps and the constant fields left out).
OrderRecord(b, symbol, qty, filled_qty, side, order_type, limit_price, fill_price, fee_amt_cash) ==
    [id |-> uuid4(b, 1),
     client_order_id |-> uuid4(b, 2),
     symbol |-> symbol,
     asset_class |-> IF _is_crypto(symbol) THEN CRYPTO ELSE US_EQUITY,
     qty |-> Str(qty),
     filled_qty |-> Str(filled_qty),
     type |-> order_type,
     side |-> side,
     limit_price |-> IF Truthy(limit_price) THEN Str(limit_price) ELSE Str(None),
     filled_avg_price |-> Str(fill_price),
     status |-> FILLED,
     sim_fee_cash |-> fee_amt_cash]

\* Variant: the ledger does not record the fee.
LedgerEntry_NoFee(b, symbol, side, filled_qty, fill_price, fee_amt_cash) ==
    [time |-> now(b), symbol |-> symbol, side |-> side, qty |-> filled_qty, price |-> fill_price,
     fee_cash |-> Zero]

LedgerEntry(b, symbol, side, filled_qty, fill_price, fee_amt_cash) ==
    [time |-> now(b), symbol |-> symbol, side |-> side, qty |-> filled_qty, price |-> fill_price,
     fee_cash |-> fee_amt_cash]

\* Variant: a rejected order is still written to the ledger.
Failure_Logged(b, kind) ==
    [error |-> kind, b |-> [b EXCEPT !.ledger = Append(@, [rejected |-> kind])]]

Failure(b, kind) == [error |-> kind, b |-> b]

\* The whole of submit_order on broker state b: error is "ok" or the kind of
\* exception raised, b the broker state the call leaves behind.
submit_order(b, symbol, qty, side, order_type, limit_price, current_price) ==
    LET raw_price  == RawPrice(b, symbol, current_price)
        fill_price == FillPrice(order_type, limit_price, raw_price)
        is_crypto  == _is_crypto(symbol)
    IN  IF raw_price = None /\ order_type = MARKET THEN Failure(b, "NoPriceData")
        ELSE IF fill_price = None THEN Failure(b, "TypeError")
        ELSE IF side = BUY
        THEN LET total_cash_required == TotalCashRequired(qty, fill_price)
                 filled_qty == BuyFilledQty(is_crypto, qty)
             IN  IF InsufficientCash(b, total_cash_required)
                 THEN Failure(b, "InsufficientCash")
                 ELSE [error |-> "ok",
                       b |-> [b EXCEPT
                           !.cash = CashAfterBuy(b, total_cash_required),
                           !.positions = _update_position(b.positions, symbol, filled_qty, fill_price, BUY),
                           !.orders = Append(b.orders,
                               OrderRecord(b, symbol, qty, filled_qty, side, order_type,
                                           limit_price, fill_price, Zero)),
                           !.ledger = Append(b.ledger,
                               LedgerEntry(b, symbol, side, filled_qty, fill_price, Zero))]]
        ELSE IF InsufficientPosition(b, symbol, qty)
             THEN Failure(b, "InsufficientPosition")
             ELSE LET gross_proceeds == Mul(qty, fill_price)
                      fee_amt_cash == SellFee(is_crypto, qty, gross_proceeds)
                  IN  [error |-> "ok",
                       b |-> [b EXCEPT
                           !.cash = CashAfterSell(b, gross_proceeds, fee_amt_cash),
                           !.positions = _update_position(b.positions, symbol, qty, fill_price, SELL),
                           !.orders = Append(b.orders,
                               OrderRecord(b, symbol, qty, qty, side, order_type,
                                           limit_price, fill_price, fee_amt_cash)),
                           !.ledger = Append(b.ledger,
                               LedgerEntry(b, symbol, side, qty, fill_price, fee_amt_cash))]]

(***************************************************************************)
(* get_account                                                             *)
(***************************************************************************)
\* Variant: positions are always valued at their entry price.
CurrPrice_Entry(b, pos) == pos.avg_entry_price

\* self.current_prices.get(symbol, pos['avg_entry_price'])
CurrPrice(b, pos) ==
    IF pos.symbol \in DOMAIN b.current_prices
    THEN b.current_prices[pos.symbol] ELSE pos.avg_entry_price

\* The loop over self.positions.items(), entries i..Len in dict order;
\* acc = <<equity, long_market_value>>.
RECURSIVE AccountLoop(_, _, _)
AccountLoop(b, i, acc) ==
    IF i > Len(b.positions) THEN acc
    ELSE LET pos     == b.positions[i]
             mkt_val == Mul(pos.qty, CurrPrice(b, pos))
         IN  AccountLoop(b, i + 1, <<Add(acc[1], mkt_val), Add(acc[2], mkt_val)>>)

get_account(b, init_cash) ==
    LET acc == AccountLoop(b, 1, <<b.cash, Zero>>)
    IN  [status |-> "ACTIVE", currency |-> "USD",
         cash |-> Str(b.cash), buying_power |-> Str(b.cash),
         equity |-> Str(acc[1]), long_market_value |-> Str(acc[2]),
         initial_capital |-> Str(init_cash)]

(***************************************************************************)
(* cancel_orders, close_position, close_all_positions                      *)
(***************************************************************************)
\* Orders that are still new/accepted become canceled.
cancel_orders(os) ==
    [i \in 1..Len(os) |->
        IF os[i].status \in {"new", "accepted"} THEN [os[i] EXCEPT !.status = "canceled"]
        ELSE os[i]]

\* Variant: the position is sold at its entry price.
close_position_AtEntry(b, symbol) ==
    LET i == PosIndex(b.positions, symbol)
    IN  IF i = 0 THEN [error |-> "none", b |-> b]
        ELSE submit_order(b, symbol, b.positions[i].qty, SELL, MARKET, None,
                          b.positions[i].avg_entry_price)

\* error "none" stands for the empty result returned when nothing is held.
close_position(b, symbol) ==
    LET i == PosIndex(b.positions, symbol)
    IN  IF i = 0 THEN [error |-> "none", b |-> b]
        ELSE submit_order(b, symbol, b.positions[i].qty, SELL, MARKET, None, None)

\* The loop over list(self.positions.keys()); an exception of close_position
\* leaves the loop with the positions closed so far.
RECURSIVE CloseLoop(_, _, _)
CloseLoop(b, keys, i) ==
    IF i > Len(keys) THEN [error |-> "ok", b |-> b]
    ELSE LET r == close_position(b, keys[i])
         IN  IF r.error \in {"ok", "none"} THEN CloseLoop(r.b, keys, i + 1)
             ELSE r

\* closed_orders: every order close_position returned was appended to
\* self.orders by submit_order, so the list is the orders added since the
\* loop began (n of them were there before); an exception returns nothing.
ClosedOrders(r, n) ==
    [error |-> r.error, b |-> r.b,
     result |-> IF r.error = "ok" THEN SubSeq(r.b.orders, n + 1, Len(r.b.orders))
                ELSE <<>>]

\* Variant: only the first key of the dict is visited.
close_all_positions_First(b, do_cancel) ==
    LET b1 == IF do_cancel THEN [b EXCEPT !.orders = cancel_orders(b.orders)] ELSE b
        keys == [i \in 1..Len(b1.positions) |-> b1.positions[i].symbol]
    IN  ClosedOrders(CloseLoop(b1, IF keys = <<>> THEN keys ELSE <<keys[1]>>, 1),
                     Len(b.orders))

close_all_positions(b, do_cancel) ==
    LET b1 == IF do_cancel THEN [b EXCEPT !.orders = cancel_orders(b.orders)] ELSE b
        keys == [i \in 1..Len(b1.positions) |-> b1.positions[i].symbol]
    IN  ClosedOrders(CloseLoop(b1, keys, 1), Len(b.orders))

(***************************************************************************)
(* _calculate_fees: the fee helper, with its own asset-class heuristic.    *)
(***************************************************************************)
_calculate_fees(symbol, qty, price, side) ==
    LET is_crypto == Contains(symbol, <<"/">>) \/ Contains(Upper(symbol), <<"U", "S", "D">>)
        notional  == Mul(qty, price)
    IN  IF is_crypto THEN Mul(notional, CRYPTO_FEE_RATE)
        ELSE IF side = SELL
        THEN LET sec_fee == Max(MIN_FEE, Round2Mul(notional, SEC_FEE_RATE))
                 taf_fee == Min(Max(MIN_FEE, Round2Mul(qty, TAF_RATE)), TAF_MAX)
             IN  Add(sec_fee, taf_fee)
        ELSE Zero

(***************************************************************************)
(* get_open_position                                                       *)
(***************************************************************************)
_construct_position_object(b, symbol, pos_data) ==
    LET qty             == pos_data.qty
        avg_entry       == pos_data.avg_entry_price
        current_price   == IF symbol \in DOMAIN b.current_prices
                           THEN b.current_prices[symbol] ELSE avg_entry
        market_value    == Mul(qty, current_price)
        cost_basis      == Mul(qty, avg_entry)
        unrealized_pl   == Sub(market_value, cost_basis)
        unrealized_plpc == IF cost_basis # Zero THEN Div(unrealized_pl, cost_basis) ELSE Zero
    IN  [symbol |-> symbol, asset_class |-> pos_data.asset_class,
         avg_entry_price |-> avg_entry, qty |-> qty, side |-> "long",
         market_value |-> market_value, cost_basis |-> cost_basis,
         unrealized_pl |-> unrealized_pl, unrealized_plpc |-> unrealized_plpc,
         current_price |-> current_price]

\* The record returned for a symbol that has no position.
FlatPosition(symbol) ==
    [symbol |-> symbol, qty |-> Zero, avg_entry_price |-> Zero,
     market_value |-> Zero, status |-> "closed"]

\* Variant: the lookup stores a default entry for a symbol it does not find.
get_open_position_SetDefault(b, symbol) ==
    LET i == PosIndex(b.positions, symbol)
    IN  IF i # 0
        THEN [error |-> "ok", result |-> _construct_position_object(b, symbol, b.positions[i]), b |-> b]
        ELSE [error |-> "ok", result |-> FlatPosition(symbol),
              b |-> [b EXCEPT !.positions = Append(@, DefaultPosition(symbol))]]

\* error is "ok" (the method has no raise), result the record returned, b the
\* broker state the call leaves behind.
get_open_position(b, symbol) ==
    LET i == PosIndex(b.positions, symbol)
    IN  IF i # 0
        THEN [error |-> "ok", result |-> _construct_position_object(b, symbol, b.positions[i]), b |-> b]
        ELSE [error |-> "ok", result |-> FlatPosition(symbol), b |-> b]

get_all_positions(b) ==
    [i \in 1..Len(b.positions) |->
        _construct_position_object(b, b.positions[i].symbol, b.positions[i])]

(***************************************************************************)
(* get_orders, cancel_orders (count), get_order_by_id, cancel_order_by_id  *)
(***************************************************************************)
Reverse(s) == [i \in 1..Len(s) |-> s[Len(s) + 1 - i]]

DefaultLimit == 50

\* s[:n] of a list.
SliceTo(s, n) ==
    IF n >= 0 THEN SubSeq(s, 1, IF Len(s) < n THEN Len(s) ELSE n)
    ELSE SubSeq(s, 1, IF Len(s) + n > 0 THEN Len(s) + n ELSE 0)

\* Variant: the list is cut to its oldest entries.
get_orders_Oldest(b, status, limit) ==
    LET keep(o) == \/ status = "open" /\ o.status \in {"new", "accepted", "pending_new"}
                   \/ status = "closed" /\ o.status \in {"filled", "canceled", "expired"}
                   \/ status = "all"
    IN  SliceTo(SelectSeq(b.orders, keep), limit)

\* Newest first, filtered by status bucket, cut to limit.
get_orders(b, status, limit) ==
    LET keep(o) == \/ status = "open" /\ o.status \in {"new", "accepted", "pending_new"}
                   \/ status = "closed" /\ o.status \in {"filled", "canceled", "expired"}
                   \/ status = "all"
        filtered == SelectSeq(Reverse(b.orders), keep)
    IN  SliceTo(filtered, limit)

\* The count reported by cancel_orders.
canceled_count(os) == Cardinality({i \in 1..Len(os) : os[i].status \in {"new", "accepted"}})

\* Variant: only the system id is looked at.
get_order_by_id_IdOnly(b, order_id) ==
    IF \E i \in 1..Len(b.orders) : b.orders[i].id = order_id
    THEN CHOOSE i \in 1..Len(b.orders) : b.orders[i].id = order_id
    ELSE 0

\* Index of the order with the given id, 0 for "Order not found".
get_order_by_id(b, order_id) ==
    LET hit(o) == o.id = order_id \/ o.client_order_id = order_id
    IN  IF \E i \in 1..Len(b.orders) : hit(b.orders[i])
        THEN CHOOSE i \in 1..Len(b.orders) :
                 hit(b.orders[i]) /\ \A j \in 1..(i - 1) : ~hit(b.orders[j])
        ELSE 0

\* Variant: an order is canceled whatever its status.
Cancelable_Any(status) == TRUE

\* The statuses that allow a cancellation.
Cancelable(status) == status \in {"new", "accepted", "pending_new"}

cancel_order_by_id(b, order_id) ==
    LET i == get_order_by_id(b, order_id)
    IN  IF i = 0 THEN [error |-> "OrderNotFound", b |-> b]
        ELSE IF Cancelable(b.orders[i].status)
        THEN [error |-> "ok", b |-> [b EXCEPT !.orders[i].status = "canceled"]]
        ELSE [error |-> "CannotCancel", b |-> b]

(***************************************************************************)
(* State machine                                                           *)
(***************************************************************************)
NoSymbol == <<>>

\* The record of the last call: operation, symbol, side and quantity asked
\* for, the fill price the call resolved (None when it resolved none) and
\* its outcome.
Call(op, symbol, side, qty, fill_price, error) ==
    [op |-> op, symbol |-> symbol, side |-> side, qty |-> qty,
     fill_price |-> fill_price, error |-> error]

\* No engine drives the broker: its operations are called in any order.
NoEngine == [pc |-> "none", epoch |-> 0]

Init ==
    /\ initial_cash \in InitialCashSet
    /\ cash = initial_cash
    /\ positions = <<>>
    /\ orders = <<>>
    /\ ledger = <<>>
    /\ current_prices = <<>>
    /\ last = Call("init", NoSymbol, "-", None, None, "ok")
    /\ engine = NoEngine

\* The broker fields after a call that left state b.
Assigned(b) ==
    /\ cash' = b.cash
    /\ positions' = b.positions
    /\ orders' = b.orders
    /\ ledger' = b.ledger
    /\ current_prices' = b.current_prices

Becomes(b) == Assigned(b) /\ UNCHANGED <<initial_cash, engine>>

\* Variant: the write starts a new tape.
update_price_NewTape(symbol, price) ==
    /\ current_prices' = [s \in {symbol} |-> price]
    /\ last' = Call("update_price", symbol, "-", None, price, "ok")
    /\ UNCHANGED <<initial_cash, cash, positions, orders, ledger, engine>>

\* self.current_prices[symbol] = float(price)
TapeWrite(tape, symbol, price) ==
    [s \in DOMAIN tape \cup {symbol} |-> IF s = symbol THEN price ELSE tape[s]]

update_price(symbol, price) ==
    /\ current_prices' = TapeWrite(current_prices, symbol, price)
    /\ last' = Call("update_price", symbol, "-", None, price, "ok")
    /\ UNCHANGED <<initial_cash, cash, positions, orders, ledger, engine>>

SubmitOrder(symbol, qty, side, order_type, limit_price, current_price) ==
    /\ Len(orders) < MaxOrders
    /\ LET r == submit_order(Broker, symbol, qty, side, order_type, limit_price, current_price)
       IN  /\ Becomes(r.b)
           /\ last' = Call("submit_order", symbol, side, qty,
                           FillPrice(order_type, limit_price,
                                     RawPrice(Broker, symbol, current_price)),
                           r.error)

ClosePosition(symbol) ==
    /\ Len(orders) < MaxOrders
    /\ LET r == close_position(Broker, symbol)
       IN  /\ Becomes(r.b)
           /\ last' = Call("close_position", symbol, "-", None, None, r.error)

\* The loop appends one order per held symbol, so the order list may pass
\* MaxOrders by the number of positions.
CloseAllPositions(do_cancel) ==
    /\ Len(orders) <= MaxOrders
    /\ LET r == close_all_positions(Broker, do_cancel)
       IN  /\ Becomes(r.b)
           /\ last' = Call("close_all_positions", NoSymbol, "-", None, None, r.error)

\* The record of a query: its argument, what it returned and its outcome.
Query(op, args, result, error) ==
    [op |-> op, args |-> args, result |-> result, error |-> error]

GetOpenPosition(symbol) ==
    LET r == get_open_position(Broker, symbol)
    IN  /\ Becomes(r.b)
        /\ last' = Call("get_open_position", symbol, "-", r.result.qty, None, r.error)

CancelOrders ==
    /\ Becomes([Broker EXCEPT !.orders = cancel_orders(orders)])
    /\ last' = Call("cancel_orders", NoSymbol, "-", None, None, "ok")

CancelOrderById(order_id) ==
    LET r == cancel_order_by_id(Broker, order_id)
    IN  /\ Becomes(r.b)
        /\ last' = Query("cancel_order_by_id", order_id, None, r.error)

GetOrders(status, limit) ==
    /\ Becomes(Broker)
    /\ last' = Query("get_orders", <<status, limit>>, get_orders(Broker, status, limit), "ok")

\* result is the order returned, None for "Order not found".
GetOrderById(order_id) ==
    LET i == get_order_by_id(Broker, order_id)
    IN  /\ Becomes(Broker)
        /\ last' = Query("get_order_by_id", order_id,
                         IF i = 0 THEN None ELSE orders[i],
                         IF i = 0 THEN "OrderNotFound" ELSE "ok")

GetAccount ==
    /\ Becomes(Broker)
    /\ last' = Query("get_account", <<>>, get_account(Broker, initial_cash), "ok")

GetAllPositions ==
    /\ Becomes(Broker)
    /\ last' = Query("get_all_positions", <<>>, get_all_positions(Broker), "ok")

GetClock ==
    /\ Becomes(Broker)
    /\ last' = Query("get_clock", <<>>, [is_open |-> TRUE], "ok")

Next ==
    \/ \E symbol \in Symbols, price \in PriceSet : update_price(symbol, price)
    \/ \E symbol \in Symbols, side \in {BUY, SELL}, a \in PriceArgs :
          \E qty \in QtySet(symbol) :
              SubmitOrder(symbol, qty, side, a[1], a[2], a[3])
    \/ \E symbol \in Symbols : ClosePosition(symbol)
    \/ \E do_cancel \in BOOLEAN : CloseAllPositions(do_cancel)

Spec == Init /\ [][Next]_vars

(***************************************************************************)
(* Price resolution: the tape and orders with every shape of price         *)
(* arguments, one quantity per symbol.                                     *)
(***************************************************************************)
PriceQty(symbol) == IF _is_crypto(symbol) THEN Mul(R(400, 1), Lot) ELSE Mul(R(3, 1), Lot)

NextPrices ==
    \/ \E symbol \in Symbols, price \in PriceSet : update_price(symbol, price)
    \/ \E symbol \in Symbols, side \in {BUY, SELL}, a \in PriceArgs :
          SubmitOrder(symbol, PriceQty(symbol), side, a[1], a[2], a[3])

SpecPrices == Init /\ [][NextPrices]_vars

(***************************************************************************)
(* The same broker on a whole-share grid: dollar-scale quantities and      *)
(* prices as in src/tests/test_brokers.py, symbols of every naming shape,  *)
(* and the query and cancel operations.                                    *)
(***************************************************************************)
BTCEUR == <<"B", "T", "C", "/", "E", "U", "R">>
USDT   == <<"U", "S", "D", "T">>
FORD   == <<"F">>

ShareSymbols == {AAPL, FORD, BTCUSD, BTCEUR, USDT}

\* Symbols that get a tape price.
TapeSymbols == {AAPL, BTCUSD}

ShareInitialCash == R(100000, 1)

\* The reference price supplied with an order of a symbol.
SharePrice(symbol) ==
    IF symbol = AAPL THEN R(160, 1)
    ELSE IF symbol \in {FORD, USDT} THEN One
    ELSE R(50000, 1)

\* The prices a symbol takes on the tape.
TapePrices(symbol) ==
    IF symbol = BTCUSD THEN {R(50000, 1), R(60000, 1)} ELSE {SharePrice(symbol)}

\* Requested quantities: round lots, a block above the 50,000 shares at which
\* the TAF reaches its cap, whole and half coins.
ShareQty(symbol) ==
    IF symbol \in {AAPL, USDT} THEN {R(100, 1)}
    ELSE IF symbol = FORD THEN {R(60000, 1)}
    ELSE IF symbol = BTCUSD THEN {R(1, 2), One}
    ELSE {One}

InitShares ==
    /\ initial_cash = ShareInitialCash
    /\ cash = initial_cash
    /\ positions = <<>>
    /\ orders = <<>>
    /\ ledger = <<>>
    /\ current_prices = <<>>
    /\ last = Call("init", NoSymbol, "-", None, None, "ok")
    /\ engine = NoEngine

NextShares ==
    \/ \E symbol \in TapeSymbols :
          \E price \in TapePrices(symbol) : update_price(symbol, price)
    \/ \E symbol \in ShareSymbols, side \in {BUY, SELL} :
          \E qty \in ShareQty(symbol), current_price \in {None, SharePrice(symbol)} :
              SubmitOrder(symbol, qty, side, MARKET, None, current_price)
    \/ \E symbol \in ShareSymbols : ClosePosition(symbol)
    \/ \E do_cancel \in BOOLEAN : CloseAllPositions(do_cancel)
    \/ \E symbol \in ShareSymbols : GetOpenPosition(symbol)
    \/ CancelOrders
    \/ \E order_id \in 1..(Len(orders) + 1) : CancelOrderById(order_id)

SpecShares == InitShares /\ [][NextShares]_vars

(***************************************************************************)
(* The whole broker contract, queries included, on two symbols with one    *)
(* quantity each.                                                          *)
(***************************************************************************)
QuerySymbols == {AAPL, BTCUSD}

QueryQty(symbol) == IF symbol = AAPL THEN R(100, 1) ELSE One

Buckets == {"open", "closed", "all"}

Limits == {0, 1, DefaultLimit}

\* Ids asked for: every uuid drawn for the orders so far (order ids, client
\* order ids, asset ids) and one that was never drawn.
ProbeIds == 0..(3 * Len(orders))

NextQueries ==
    \/ \E symbol \in TapeSymbols :
          \E price \in TapePrices(symbol) : update_price(symbol, price)
    \/ \E symbol \in QuerySymbols, side \in {BUY, SELL} :
          \E current_price \in {None, SharePrice(symbol)} :
              SubmitOrder(symbol, QueryQty(symbol), side, MARKET, None, current_price)
    \/ \E symbol \in QuerySymbols : ClosePosition(symbol)
    \/ \E do_cancel \in BOOLEAN : CloseAllPositions(do_cancel)
    \/ \E symbol \in QuerySymbols : GetOpenPosition(symbol)
    \/ CancelOrders
    \/ \E order_id \in ProbeIds : CancelOrderById(order_id)
    \/ \E status \in Buckets, limit \in Limits : GetOrders(status, limit)
    \/ \E order_id \in ProbeIds : GetOrderById(order_id)
    \/ GetAccount
    \/ GetAllPositions
    \/ GetClock

SpecQueries == InitShares /\ [][NextQueries]_vars

(***************************************************************************)
(* Strategy and agent                                                      *)
(***************************************************************************)
Signal_SELL == 0 - 1
Signal_HOLD == 0
Signal_BUY  == 1

\* ConsecutiveChangeStrategy: two rises in a row buy, two falls sell.
generate_signal(data) ==
    IF Len(data) < 3 THEN Signal_HOLD
    ELSE LET closes  == [k \in 1..3 |-> data[Len(data) - 3 + k].close]
             change1 == Sub(closes[2], closes[1])
             change2 == Sub(closes[3], closes[2])
         IN  IF Lt(Zero, change1) /\ Lt(Zero, change2) THEN Signal_BUY
             ELSE IF Lt(change1, Zero) /\ Lt(change2, Zero) THEN Signal_SELL
             ELSE Signal_HOLD

commitment == R(1, 2)

\* Variant: the agent commits all of its cash.
BuyQty_AllIn(available_cash, current_price) == Div(available_cash, current_price)

\* Sizing of an entry: the committed share of the cash at the current price.
BuyQty(available_cash, current_price) ==
    Div(Mul(available_cash, commitment), current_price)

\* The agent: enters from flat on BUY, sells everything on SELL. The result
\* is the broker state left behind and the exception that left the call
\* ("ok" for none).
handle_tick(b, init_cash, symbol, data) ==
    LET signal         == generate_signal(data)
        qty_owned      == get_open_position(b, symbol).result.qty
        acc            == get_account(b, init_cash)
        available_cash == Float(acc.cash)
        current_price  == data[Len(data)].close
    IN  IF signal = Signal_BUY
        THEN IF Lt(Zero, qty_owned) THEN [error |-> "ok", b |-> b]
             ELSE IF current_price = Zero THEN [error |-> "ZeroDivisionError", b |-> b]
             ELSE IF Lt(Zero, BuyQty(available_cash, current_price))
             THEN submit_order(b, symbol, BuyQty(available_cash, current_price),
                               BUY, MARKET, None, current_price)
             ELSE [error |-> "ok", b |-> b]
        ELSE IF signal = Signal_SELL
        THEN IF Le(qty_owned, Zero) THEN [error |-> "ok", b |-> b]
             ELSE submit_order(b, symbol, qty_owned, SELL, MARKET, None, current_price)
        ELSE [error |-> "ok", b |-> b]

(***************************************************************************)
(* Small accounts: cash of a cent or a dollar, orders of one share or coin *)
(* at a cent or a dollar.                                                  *)
(***************************************************************************)
SmallCash == {R(1, 100), One}

SmallPrices == {R(1, 100), One}

SmallSymbols == {AAPL, BTCUSD}

InitSmall ==
    /\ initial_cash \in SmallCash
    /\ cash = initial_cash
    /\ positions = <<>>
    /\ orders = <<>>
    /\ ledger = <<>>
    /\ current_prices = <<>>
    /\ last = Call("init", NoSymbol, "-", None, None, "ok")
    /\ engine = NoEngine

NextSmall ==
    \/ \E symbol \in SmallSymbols, price \in SmallPrices : update_price(symbol, price)
    \/ \E symbol \in SmallSymbols, side \in {BUY, SELL}, current_price \in SmallPrices :
          SubmitOrder(symbol, One, side, MARKET, None, current_price)
    \/ \E symbol \in SmallSymbols : ClosePosition(symbol)
    \/ \E do_cancel \in BOOLEAN : CloseAllPositions(do_cancel)

SpecSmall == InitSmall /\ [][NextSmall]_vars

(***************************************************************************)
(* The agent called tick by tick on a simulated broker, outside an engine: *)
(* the tape is written, if at all, by the broker's other users.            *)
(***************************************************************************)
AgentInitialCash == {Zero, R(10000, 1)}

AgentSymbols == {BTCUSD, AAPL}

\* Close prices of the windows handed to the agent: too short for a signal,
\* a rise, a fall, a flat line, a fall to zero, a rise to zero, a rise below
\* zero.
AgentWindows ==
    {<<10, 20>>, <<10, 20, 40>>, <<40, 20, 10>>, <<10, 10, 10>>, <<2, 1, 0>>,
     <<0 - 2, 0 - 1, 0>>, <<0 - 3, 0 - 2, 0 - 1>>}

InitAgent ==
    /\ initial_cash \in AgentInitialCash
    /\ cash = initial_cash
    /\ positions = <<>>
    /\ orders = <<>>
    /\ ledger = <<>>
    /\ current_prices = <<>>
    /\ last = Call("init", NoSymbol, "-", None, None, "ok")
    /\ engine = [mode |-> "agent", pc |-> "none", epoch |-> 0]

Tick(symbol, closes) ==
    /\ engine.mode = "agent"
    /\ Len(orders) < MaxOrders
    /\ LET data == [k \in 1..Len(closes) |-> [ts |-> k - 1, close |-> R(closes[k], 1)]]
           r    == handle_tick(Broker, initial_cash, symbol, data)
       IN  /\ Assigned(r.b)
           /\ last' = Query("handle_tick", <<symbol, data>>, None, r.error)
    /\ UNCHANGED <<initial_cash, engine>>

AgentTapePrices == {R(10, 1), R(40, 1)}

NextAgent ==
    \/ \E symbol \in AgentSymbols, closes \in AgentWindows : Tick(symbol, closes)
    \/ \E symbol \in AgentSymbols, price \in AgentTapePrices : update_price(symbol, price)

SpecAgent == InitAgent /\ [][NextAgent]_vars

(***************************************************************************)
(* BacktestEngine.run_backtest: the replay loop                            *)
(***************************************************************************)
\* A dataframe of bars: the index (ts) counts the bars from 0.
Frame(closes) == [k \in 1..Len(closes) |-> [ts |-> k - 1, close |-> R(closes[k], 1)]]

\* df.iloc[lo:hi] for 0 <= lo.
Iloc(df, lo, hi) == SubSeq(df, lo + 1, IF hi < Len(df) THEN hi ELSE Len(df))

\* Variant: the window stops before the current bar.
Window_Lagging(df, i, window_size) == Iloc(df, i - window_size, i)

\* The window the agent sees at loop index i.
Window(df, i, window_size) == Iloc(df, i - window_size, i + 1)

\* Variant: the snapshot is stamped with the wall clock.
Snapshot_WallClock(b, bar, acc) ==
    [timestamp |-> now(b), cash |-> Float(acc.cash), equity |-> Float(acc.equity),
     price |-> bar.close]

\* The entry appended to history.
Snapshot(b, bar, acc) ==
    [timestamp |-> bar.ts, cash |-> Float(acc.cash), equity |-> Float(acc.equity),
     price |-> bar.close]

\* Variant: the broker at hand is used again.
FreshBroker_Reused(init_cash) ==
    UNCHANGED <<initial_cash, cash, positions, orders, ledger, current_prices>>

\* LocalSimBroker(initial_cash)
FreshBroker(init_cash) ==
    /\ initial_cash' = init_cash
    /\ cash' = init_cash
    /\ positions' = <<>>
    /\ orders' = <<>>
    /\ ledger' = <<>>
    /\ current_prices' = <<>>

\* 1. Update Broker's internal tape.
ReplayUpdatePrice ==
    /\ engine.pc = "tape"
    /\ engine.i < Len(engine.df)
    /\ LET window        == Window(engine.df, engine.i, engine.window_size)
           current_price == window[Len(window)].close
       IN  /\ current_prices' = TapeWrite(current_prices, engine.symbol, current_price)
           /\ last' = Call("update_price", engine.symbol, "-", None, current_price, "ok")
    /\ engine' = [engine EXCEPT !.pc = "agent"]
    /\ UNCHANGED <<initial_cash, cash, positions, orders, ledger>>

\* 2. Agent processes the tick; its exception leaves run_backtest.
ReplayHandleTick ==
    /\ engine.pc = "agent"
    /\ LET window == Window(engine.df, engine.i, engine.window_size)
           r      == handle_tick(Broker, initial_cash, engine.symbol, window)
       IN  /\ Assigned(r.b)
           /\ last' = Query("handle_tick", <<engine.symbol, window>>, None, r.error)
           /\ engine' = [engine EXCEPT !.pc = IF r.error = "ok" THEN "snapshot" ELSE "raised",
                                       !.error = r.error]
    /\ UNCHANGED initial_cash

\* 3. Capture state for analytics, then the next index.
ReplaySnapshot ==
    /\ engine.pc = "snapshot"
    /\ LET acc == get_account(Broker, initial_cash)
       IN  /\ engine' = [engine EXCEPT
                            !.history = Append(@, Snapshot(Broker, engine.df[engine.i + 1], acc)),
                            !.i = @ + 1,
                            !.pc = "tape"]
           /\ last' = Query("get_account", <<>>, acc, "ok")
    /\ UNCHANGED <<initial_cash, cash, positions, orders, ledger, current_prices>>

\* The loop is over: the history becomes a frame indexed by "timestamp",
\* which an empty history has no column for.
ReplayReturn ==
    /\ engine.pc = "tape"
    /\ engine.i >= Len(engine.df)
    /\ LET error == IF engine.history = <<>> THEN "KeyError" ELSE "ok"
       IN  /\ engine' = [engine EXCEPT !.pc = IF error = "ok" THEN "done" ELSE "raised",
                                       !.error = error]
           /\ last' = Query("run_backtest", engine.symbol, engine.history, error)
    /\ UNCHANGED <<initial_cash, cash, positions, orders, ledger, current_prices>>

\* The engine at the start of run_backtest (run counts the runs over the same
\* bars, first keeps how the first of them ended).
Engine(mode, epoch, window_size, symbol, df) ==
    [mode |-> mode, pc |-> "tape", epoch |-> epoch, window_size |-> window_size,
     symbol |-> symbol, df |-> df, i |-> window_size, history |-> <<>>,
     error |-> "ok", run |-> 1, first |-> <<>>]

(***************************************************************************)
(* Replay runs: one symbol's bars, run twice on a fresh broker each time.  *)
(***************************************************************************)
ReplayInitialCash == R(10000, 1)

ReplayWindowSizes == {1, 2}

ReplaySymbols == {BTCUSD, AAPL}

\* Close prices of the histories: none, too short, a rise, a rise and a
\* fall, two rises around a fall, a fall, a rise to zero, a flat line.
ReplayCloses ==
    {<<>>, <<10, 20>>, <<10, 20, 40>>, <<10, 20, 40, 20, 10>>,
     <<10, 20, 40, 20, 10, 20, 40>>, <<40, 20, 10>>, <<0 - 2, 0 - 1, 0>>,
     <<10, 10, 10, 10>>}

\* What the uuid generator and the clock have moved on to by the second run.
SecondEpoch == 100

InitReplay ==
    /\ initial_cash = ReplayInitialCash
    /\ cash = initial_cash
    /\ positions = <<>>
    /\ orders = <<>>
    /\ ledger = <<>>
    /\ current_prices = <<>>
    /\ last = Call("init", NoSymbol, "-", None, None, "ok")
    /\ \E window_size \in ReplayWindowSizes, symbol \in ReplaySymbols, closes \in ReplayCloses :
          engine = Engine("replay", 0, window_size, symbol, Frame(closes))

\* The same bars again, on a fresh broker and a fresh engine.
ReplayAgain ==
    /\ engine.mode = "replay"
    /\ engine.pc \in {"done", "raised"}
    /\ engine.run = 1
    /\ FreshBroker(ReplayInitialCash)
    /\ engine' = [Engine("replay", SecondEpoch, engine.window_size, engine.symbol, engine.df)
                      EXCEPT !.run = 2,
                             !.first = [pc |-> engine.pc, history |-> engine.history,
                                        error |-> engine.error]]
    /\ last' = Call("init", NoSymbol, "-", None, None, "ok")

NextReplay ==
    \/ ReplayUpdatePrice
    \/ ReplayHandleTick
    \/ ReplaySnapshot
    \/ ReplayReturn
    \/ ReplayAgain

SpecReplay == InitReplay /\ [][NextReplay]_vars

(***************************************************************************)
(* run_standalone_backtest: the matrix of symbols and timeframes (the one  *)
(* timeframe "1D"), a fresh broker, agent and engine for every cell.       *)
(***************************************************************************)
DefaultWindowSize == 10

MatrixInitialCash == R(10000, 1)

ETHUSD == <<"E", "T", "H", "/", "U", "S", "D">>

\* get_active_symbols, in the order of its rows.
MatrixSymbols == <<BTCUSD, AAPL, ETHUSD>>

Flat(n, c) == [k \in 1..n |-> c]

\* fetch_history: an exception, or the bars of a history: one bar short of
\* the window, as long as the window, a flat line, a rise and a fall, a rise
\* to zero.
FetchOutcomes ==
    {[error |-> "DatabaseError", df |-> <<>>]} \cup
    {[error |-> "ok", df |-> Frame(closes)] :
        closes \in {Flat(9, 5), Flat(10, 5), Flat(11, 5),
                    Flat(8, 5) \o <<10, 20, 40, 20, 10>>,
                    Flat(8, 0 - 3) \o <<0 - 2, 0 - 1, 0>>}}

\* A cell of matrix_results.
Cell(marker, value) == [marker |-> marker, value |-> value]

\* Variant: every history is simulated.
NoData_Never(df, window_size) == FALSE

\* df is None or len(df) <= engine.window_size
NoData(df, window_size) == Len(df) <= window_size

\* Variant: an exception ends the matrix.
Recorded_Abort(e, result) ==
    [e EXCEPT !.results = [s \in DOMAIN e.results \cup {e.symbol} |->
                              IF s = e.symbol THEN result ELSE e.results[s]],
              !.k = IF result.marker = "ERROR" THEN Len(e.symbols) + 1 ELSE @ + 1,
              !.pc = "cell"]

\* matrix_results[symbol][tf] = result, and on to the next cell.
Recorded(e, result) ==
    [e EXCEPT !.results = [s \in DOMAIN e.results \cup {e.symbol} |->
                              IF s = e.symbol THEN result ELSE e.results[s]],
              !.k = @ + 1,
              !.pc = "cell"]

InitMatrix ==
    /\ initial_cash = MatrixInitialCash
    /\ cash = initial_cash
    /\ positions = <<>>
    /\ orders = <<>>
    /\ ledger = <<>>
    /\ current_prices = <<>>
    /\ last = Call("init", NoSymbol, "-", None, None, "ok")
    /\ \E data \in [{MatrixSymbols[k] : k \in 1..Len(MatrixSymbols)} -> FetchOutcomes] :
          engine = [mode |-> "matrix", pc |-> "cell", epoch |-> 0,
                    window_size |-> DefaultWindowSize, symbol |-> NoSymbol, df |-> <<>>,
                    i |-> 0, history |-> <<>>, error |-> "ok", run |-> 1, first |-> <<>>,
                    symbols |-> MatrixSymbols, k |-> 1, data |-> data, results |-> <<>>]

\* 1. Fresh start for every cell in the matrix.
MatrixCell ==
    /\ engine.mode = "matrix"
    /\ engine.pc = "cell"
    /\ engine.k <= Len(engine.symbols)
    /\ FreshBroker(MatrixInitialCash)
    /\ engine' = [engine EXCEPT !.pc = "fetch",
                                !.symbol = engine.symbols[engine.k],
                                !.epoch = @ + SecondEpoch,
                                !.window_size = DefaultWindowSize,
                                !.df = <<>>, !.history = <<>>, !.error = "ok"]
    /\ last' = Call("init", NoSymbol, "-", None, None, "ok")

\* 2. Fetch from DB: an exception gives ERROR, too few bars NO_DATA, else
\* run_backtest starts.
MatrixFetch ==
    /\ engine.mode = "matrix"
    /\ engine.pc = "fetch"
    /\ LET fetched == engine.data[engine.symbol]
       IN  /\ last' = Query("fetch_history", engine.symbol, fetched.df, fetched.error)
           /\ engine' =
                 IF fetched.error # "ok" THEN Recorded(engine, Cell("ERROR", None))
                 ELSE IF NoData(fetched.df, engine.window_size)
                 THEN Recorded(engine, Cell("NO_DATA", None))
                 ELSE [engine EXCEPT !.pc = "tape", !.df = fetched.df,
                                     !.i = engine.window_size, !.history = <<>>]
    /\ UNCHANGED <<initial_cash, cash, positions, orders, ledger, current_prices>>

\* 4. Extract result: the last equity, rounded to cents; an exception of
\* run_backtest gives ERROR.
MatrixResult ==
    /\ engine.mode = "matrix"
    /\ engine.pc \in {"done", "raised"}
    /\ LET result == IF engine.pc = "raised" THEN Cell("ERROR", None)
                     ELSE Cell("equity",
                               Round2(engine.history[Len(engine.history)].equity))
       IN  /\ engine' = Recorded(engine, result)
           /\ last' = Query("matrix_results", engine.symbol, result, engine.error)
    /\ UNCHANGED <<initial_cash, cash, positions, orders, ledger, current_prices>>

\* Report rendering.
MatrixReport ==
    /\ engine.mode = "matrix"
    /\ engine.pc = "cell"
    /\ engine.k > Len(engine.symbols)
    /\ engine' = [engine EXCEPT !.pc = "finished"]
    /\ last' = Query("report", <<>>, engine.results, "ok")
    /\ UNCHANGED <<initial_cash, cash, positions, orders, ledger, current_prices>>

NextMatrix ==
    \/ MatrixCell
    \/ MatrixFetch
    \/ ReplayUpdatePrice
    \/ ReplayHandleTick
    \/ ReplaySnapshot
    \/ ReplayReturn
    \/ MatrixResult
    \/ MatrixReport

SpecMatrix == InitMatrix /\ [][NextMatrix]_vars

(***************************************************************************)
(* The streaming loop (LiveEngine).  The broker and the agent's decisions  *)
(* are Alpaca's: a call of handle_tick either returns or raises, and the   *)
(* simulated broker's state is not touched.                                *)
(***************************************************************************)
LiveWindowSizes == {0, 1, 2}

LiveSymbols == {BTCUSD, ETHUSD}

LiveCloses == {10, 20}

\* The close of the bars where the price plays no part.
BarClose == 10

\* Bars the stream delivers per symbol in a run.
MaxBars == 7

\* What handle_tick does on the live broker: it returns, or it raises.
TickOutcomes == {"ok", "APIError"}

\* df.iloc[-n:] for n >= 0: the last n rows, the whole frame when it has no
\* more than n rows, and the whole frame for n = 0 (-0 is 0).
LastRows(df, n) ==
    IF n = 0 \/ n >= Len(df) THEN df ELSE SubSeq(df, Len(df) - n + 1, Len(df))

\* Variant: the trim keeps the oldest rows.
Trimmed_KeepOldest(df, window_size) ==
    IF Len(df) > window_size * 3 THEN SubSeq(df, 1, window_size * 3) ELSE df

\* Variant: a buffer longer than 3 * window_size is cut to less than a window.
Trimmed_BelowWindow(df, window_size) ==
    IF Len(df) > window_size * 3 THEN LastRows(df, window_size - 1) ELSE df

\* The buffer after the trim: the last max_bars = 3 * window_size rows when it
\* is longer than that.
Trimmed(df, window_size) ==
    IF Len(df) > window_size * 3 THEN LastRows(df, window_size * 3) ELSE df

NotEvaluated == [invoked |-> FALSE, window |-> <<>>, error |-> "ok"]

\* Variant: the agent is called with whatever rows the buffer has.
_evaluate_symbol_Unguarded(df, window_size, outcome) ==
    [invoked |-> TRUE, window |-> LastRows(df, window_size + 1), error |-> outcome]

\* _evaluate_symbol: the window is the last window_size + 1 rows; with fewer
\* rows it warns "Not enough data" and returns; otherwise the agent is called
\* with the window, and an exception of the call is logged, not raised.
_evaluate_symbol(df, window_size, outcome) ==
    LET window == LastRows(df, window_size + 1)
    IN  IF Len(window) < window_size + 1 THEN NotEvaluated
        ELSE [invoked |-> TRUE, window |-> window, error |-> outcome]

\* Variant: an exception of the evaluation leaves the callback and ends the
\* stream's loop.
AfterEvaluate_Propagates(error) == IF error = "ok" THEN "streaming" ELSE "crashed"

\* The engine after an evaluation: its exception is caught and logged inside
\* _evaluate_symbol, the callback returns and the stream goes on.
AfterEvaluate(error) == "streaming"

\* LiveEngine.__init__: an empty buffer per symbol.
LiveEngine(window_size) ==
    [mode |-> "live", pc |-> "constructed", epoch |-> 0, window_size |-> window_size,
     bar_data |-> [s \in LiveSymbols |-> <<>>],
     received |-> [s \in LiveSymbols |-> 0],
     is_running |-> FALSE, exit |-> "none", stop_ws_calls |-> 0,
     stop_ws_error |-> "none", final_logs |-> 0, raised |-> "none",
     ready |-> <<>>, busy |-> FALSE]

InitLive ==
    /\ initial_cash = ShareInitialCash
    /\ cash = initial_cash
    /\ positions = <<>>
    /\ orders = <<>>
    /\ ledger = <<>>
    /\ current_prices = <<>>
    /\ last = Call("init", NoSymbol, "-", None, None, "ok")
    /\ \E window_size \in LiveWindowSizes : engine = LiveEngine(window_size)

\* start, up to the stream's loop: subscribe the callback, set is_running, log
\* the account (a failure is logged as a warning), run the stream.
Start(outcome) ==
    /\ engine.mode = "live"
    /\ engine.pc = "constructed"
    /\ engine' = [engine EXCEPT !.pc = "streaming", !.is_running = TRUE]
    /\ last' = Query("start", <<>>, None, outcome)
    /\ UNCHANGED <<initial_cash, cash, positions, orders, ledger, current_prices>>

\* _on_bar: append the bar to its symbol's buffer, trim, and evaluate the
\* symbol when the buffer has at least window_size rows.
OnBar(symbol, close, outcome) ==
    /\ engine.mode = "live"
    /\ engine.pc = "streaming"
    /\ engine.received[symbol] < MaxBars
    /\ LET bar == [ts |-> engine.received[symbol], close |-> R(close, 1)]
           df == Trimmed(Append(engine.bar_data[symbol], bar), engine.window_size)
           evaluated == IF Len(df) >= engine.window_size
                        THEN _evaluate_symbol(df, engine.window_size, outcome)
                        ELSE NotEvaluated
       IN  /\ engine' = [engine EXCEPT !.bar_data[symbol] = df,
                                       !.received[symbol] = @ + 1,
                                       !.pc = AfterEvaluate(evaluated.error)]
           /\ last' = Query("_on_bar", <<symbol, bar>>, evaluated, evaluated.error)
    /\ UNCHANGED <<initial_cash, cash, positions, orders, ledger, current_prices>>

NextLive ==
    \/ \E outcome \in TickOutcomes : Start(outcome)
    \/ \E symbol \in LiveSymbols, outcome \in TickOutcomes :
          OnBar(symbol, BarClose, outcome)

SpecLive == InitLive /\ [][NextLive]_vars

(***************************************************************************)
(* The end of the streaming loop: start's try / except KeyboardInterrupt / *)
(* finally around the stream's loop, and shutdown.                         *)
(***************************************************************************)
\* How stream._run_forever() ends: it returns, or it raises.
StreamExits == {"return", "KeyboardInterrupt", "CancelledError", "ConnectionError"}

StopWsOutcomes == {"ok", "WebSocketError"}

ShutdownWindowSize == 1

\* What start raises to its caller: except KeyboardInterrupt catches that one
\* exception, any other leaves start after the finally block.
Propagated(exit) == IF exit \in {"return", "KeyboardInterrupt"} THEN "ok" ELSE exit

\* Variant: an exception of stop_ws leaves shutdown at once.
AfterStopWs_Unguarded(outcome) == IF outcome = "ok" THEN "final_log" ELSE "stopped"

\* shutdown after stop_ws: its exception is caught and logged, the final
\* account state is logged next in either case.
AfterStopWs(outcome) == "final_log"

InitShutdown ==
    /\ initial_cash = ShareInitialCash
    /\ cash = initial_cash
    /\ positions = <<>>
    /\ orders = <<>>
    /\ ledger = <<>>
    /\ current_prices = <<>>
    /\ last = Call("init", NoSymbol, "-", None, None, "ok")
    /\ engine = LiveEngine(ShutdownWindowSize)

\* The stream's loop ends: the finally block calls shutdown, which logs and
\* clears is_running before it awaits stop_ws.
StreamExit(exit) ==
    /\ engine.mode = "live"
    /\ engine.pc = "streaming"
    /\ engine' = [engine EXCEPT !.pc = "stop_ws", !.exit = exit, !.is_running = FALSE]
    /\ last' = Query("_run_forever", <<>>, None, exit)
    /\ UNCHANGED <<initial_cash, cash, positions, orders, ledger, current_prices>>

\* shutdown: await self.stream.stop_ws() in its try.
StopWs(outcome) ==
    /\ engine.mode = "live"
    /\ engine.pc = "stop_ws"
    /\ engine' = [engine EXCEPT !.pc = AfterStopWs(outcome),
                                !.stop_ws_calls = @ + 1,
                                !.stop_ws_error = outcome,
                                !.raised = IF AfterStopWs(outcome) = "stopped"
                                           THEN outcome ELSE @]
    /\ last' = Query("stop_ws", <<>>, None, outcome)
    /\ UNCHANGED <<initial_cash, cash, positions, orders, ledger, current_prices>>

\* shutdown: the final account state in its try, "Shutdown complete", and
\* the end of start.
FinalLog(outcome) ==
    /\ engine.mode = "live"
    /\ engine.pc = "final_log"
    /\ engine' = [engine EXCEPT !.pc = "stopped", !.final_logs = @ + 1,
                                !.raised = Propagated(engine.exit)]
    /\ last' = Query("shutdown", <<>>, None, outcome)
    /\ UNCHANGED <<initial_cash, cash, positions, orders, ledger, current_prices>>

StopWsStep == \E outcome \in StopWsOutcomes : StopWs(outcome)

FinalLogStep == \E outcome \in TickOutcomes : FinalLog(outcome)

NextShutdown ==
    \/ \E outcome \in TickOutcomes : Start(outcome)
    \/ \E symbol \in LiveSymbols, outcome \in TickOutcomes :
          OnBar(symbol, BarClose, outcome)
    \/ \E exit \in StreamExits : StreamExit(exit)
    \/ StopWsStep
    \/ FinalLogStep

\* shutdown, once called, runs to its end: each await returns or raises.
SpecShutdown ==
    InitShutdown /\ [][NextShutdown]_vars /\ WF_vars(StopWsStep) /\ WF_vars(FinalLogStep)

(***************************************************************************)
(* LiveAlpacaBroker: a wrapper around the SDK's trading client.  The       *)
(* account is Alpaca's: engine.held is the set of symbols, as the SDK      *)
(* names them, that have an open position there.                           *)
(***************************************************************************)
\* A Python str, as distinct from a number.
PyStr(chars) == [str |-> chars]

FAKE_TICKER == <<"F", "A", "K", "E", "_", "T", "I", "C", "K", "E", "R">>

\* str(e) of the exceptions the position lookup raises for a missing
\* position: Alpaca's 404 body by its message or by its code, and the message
\* of the broker's own test.
PositionDoesNotExist == <<"p", "o", "s", "i", "t", "i", "o", "n", " ", "d", "o", "e", "s", " ", "n", "o", "t", " ", "e", "x", "i", "s", "t">>

Code40410000 == <<"4", "0", "4", "1", "0", "0", "0", "0">>

PositionNotFound == <<"P", "o", "s", "i", "t", "i", "o", "n", " ", "n", "o", "t", " ", "f", "o", "u", "n", "d">>

\* str(e) of another failure of the lookup.
Forbidden == <<"f", "o", "r", "b", "i", "d", "d", "e", "n">>

MissingMessages == {PositionDoesNotExist, Code40410000, PositionNotFound}

AlpacaSymbols == {AAPL, BTCUSD, ETHUSD, FAKE_TICKER}

\* symbol.replace("/", "")
StripSlash(symbol) == SelectSeq(symbol, LAMBDA ch : ch # "/")

\* The record returned for a missing position.
LiveFlatPosition(symbol) ==
    [symbol |-> symbol, qty |-> PyStr(<<"0">>), side |-> "long",
     market_value |-> PyStr(<<"0">>), avg_entry_price |-> PyStr(<<"0">>)]

\* The test of the except clause on str(e).
IsMissing(message) ==
    Contains(message, <<"d", "o", "e", "s", " ", "n", "o", "t", " ", "e", "x", "i", "s", "t">>) \/ Contains(message, Code40410000)

\* LiveAlpacaBroker.get_open_position; sdk is what the client's lookup of the
\* slash-less symbol does: it returns a position's model_dump, or it raises an
\* exception with a message.
live_get_open_position(symbol, sdk) ==
    LET sdk_symbol == StripSlash(symbol)
    IN  IF sdk.raised = "no" THEN [error |-> "ok", result |-> sdk.position]
        ELSE IF IsMissing(sdk.message)
        THEN [error |-> "ok", result |-> LiveFlatPosition(sdk_symbol)]
        ELSE [error |-> "Exception", result |-> None]

\* What the SDK's lookup does for a symbol: the position if there is one, an
\* exception for the missing position in one of its wordings, or another
\* failure.
SdkLookups(sdk_symbol) ==
    {[raised |-> "other", message |-> Forbidden, position |-> None]}
    \cup (IF sdk_symbol \in engine.held
          THEN {[raised |-> "no", message |-> <<>>,
                 position |-> [symbol |-> sdk_symbol, qty |-> PyStr(<<"1">>),
                               side |-> "long", market_value |-> PyStr(<<"9">>),
                               avg_entry_price |-> PyStr(<<"9">>)]]}
          ELSE {[raised |-> "missing", message |-> m, position |-> None] :
                    m \in MissingMessages})

InitAlpaca ==
    /\ initial_cash = ShareInitialCash
    /\ cash = initial_cash
    /\ positions = <<>>
    /\ orders = <<>>
    /\ ledger = <<>>
    /\ current_prices = <<>>
    /\ last = Call("init", NoSymbol, "-", None, None, "ok")
    /\ engine = [mode |-> "alpaca", pc |-> "none", epoch |-> 0, held |-> {}]

\* Alpaca's side: a position of the account is opened or closed.
AlpacaFill(symbol) ==
    /\ engine.mode = "alpaca"
    /\ engine' = [engine EXCEPT !.held = IF StripSlash(symbol) \in @
                                         THEN @ \ {StripSlash(symbol)}
                                         ELSE @ \cup {StripSlash(symbol)}]
    /\ last' = Query("fill", symbol, None, "ok")
    /\ UNCHANGED <<initial_cash, cash, positions, orders, ledger, current_prices>>

LiveGetOpenPosition(symbol, sdk) ==
    /\ engine.mode = "alpaca"
    /\ LET r == live_get_open_position(symbol, sdk)
       IN  last' = Query("get_open_position", <<symbol, sdk.raised, sdk.message>>,
                         r.result, r.error)
    /\ UNCHANGED <<initial_cash, cash, positions, orders, ledger, current_prices, engine>>

NextAlpaca ==
    \/ \E symbol \in AlpacaSymbols : AlpacaFill(symbol)
    \/ \E symbol \in AlpacaSymbols :
          \E sdk \in SdkLookups(StripSlash(symbol)) : LiveGetOpenPosition(symbol, sdk)

SpecAlpaca == InitAlpaca /\ [][NextAlpaca]_vars

(***************************************************************************)
(* The two evaluation loops side by side: a replay run, or a streaming     *)
(* engine.                                                                 *)
(***************************************************************************)
InitEngines == InitReplay \/ InitShutdown

NextEngines ==
    \/ NextReplay
    \/ \E outcome \in TickOutcomes : Start(outcome)
    \/ \E symbol \in LiveSymbols, close \in LiveCloses, outcome \in TickOutcomes :
          OnBar(symbol, close, outcome)

SpecEngines == InitEngines /\ [][NextEngines]_vars

(***************************************************************************)
(* The bar callback as a coroutine of the event loop.  The loop runs one   *)
(* coroutine at a time, from its ready queue in first-in first-out order,  *)
(* until the coroutine ends or suspends at an await that yields; the       *)
(* stream may hand over several bars before the first callback runs.       *)
(***************************************************************************)
\* Callbacks created and not yet finished.
MaxInFlight == 2

\* Variant: the await of the evaluation yields to the event loop.
Suspends_AtEvaluate(pc) == pc = "evaluate"

\* The awaits of _on_bar that yield to the event loop: its one await is of
\* _evaluate_symbol, a coroutine without an await of its own, which runs to
\* its end when awaited; the agent and the broker are called synchronously.
Suspends(pc) == FALSE

\* The stream hands a bar of symbol to the callback: the coroutine is
\* queued.
Dispatch(symbol) ==
    /\ engine.mode = "live"
    /\ engine.pc = "streaming"
    /\ ~engine.busy
    /\ Len(engine.ready) < MaxInFlight
    /\ engine.received[symbol] < MaxBars
    /\ LET bar == [ts |-> engine.received[symbol], close |-> R(BarClose, 1)]
       IN  /\ engine' = [engine EXCEPT
                            !.ready = Append(@, [symbol |-> symbol, bar |-> bar,
                                                 pc |-> "append"]),
                            !.received[symbol] = @ + 1]
           /\ last' = Query("dispatch", <<symbol, bar>>, None, "ok")
    /\ UNCHANGED <<initial_cash, cash, positions, orders, ledger, current_prices>>

\* _on_bar up to the await: the first coroutine of the queue appends its bar
\* and trims the buffer; with fewer than window_size rows it ends, else it
\* awaits the evaluation.
CallbackAppend ==
    /\ engine.mode = "live"
    /\ engine.ready # <<>>
    /\ engine.ready[1].pc = "append"
    /\ LET task == engine.ready[1]
           df == Trimmed(Append(engine.bar_data[task.symbol], task.bar),
                         engine.window_size)
           waiting == [task EXCEPT !.pc = "evaluate"]
       IN  /\ engine' =
                 [engine EXCEPT
                    !.bar_data[task.symbol] = df,
                    !.ready = IF Len(df) < engine.window_size THEN Tail(@)
                              ELSE IF Suspends("evaluate") THEN Append(Tail(@), waiting)
                              ELSE <<waiting>> \o Tail(@),
                    !.busy = Len(df) >= engine.window_size /\ ~Suspends("evaluate")]
           /\ last' = Query("append", <<task.symbol, task.bar>>, None, "ok")
    /\ UNCHANGED <<initial_cash, cash, positions, orders, ledger, current_prices>>

\* _evaluate_symbol of the first coroutine of the queue, on the buffer as it
\* is now; the coroutine ends.
CallbackEvaluate(outcome) ==
    /\ engine.mode = "live"
    /\ engine.ready # <<>>
    /\ engine.ready[1].pc = "evaluate"
    /\ LET task == engine.ready[1]
           evaluated == _evaluate_symbol(engine.bar_data[task.symbol],
                                         engine.window_size, outcome)
       IN  /\ engine' = [engine EXCEPT !.ready = Tail(@), !.busy = FALSE,
                                       !.pc = AfterEvaluate(evaluated.error)]
           /\ last' = Query("_evaluate_symbol", <<task.symbol, task.bar>>,
                            evaluated, evaluated.error)
    /\ UNCHANGED <<initial_cash, cash, positions, orders, ledger, current_prices>>

NextCallbacks ==
    \/ \E outcome \in TickOutcomes : Start(outcome)
    \/ \E symbol \in LiveSymbols : Dispatch(symbol)
    \/ CallbackAppend
    \/ \E outcome \in TickOutcomes : CallbackEvaluate(outcome)

SpecCallbacks == InitShutdown /\ [][NextCallbacks]_vars

(***************************************************************************)
(* Properties                                                              *)
(***************************************************************************)
CryptoSymbols == {BTCUSD}

\* Quantity held of symbol in a positions dict, 0 when it has no entry.
HeldQty(ps, symbol) ==
    IF PosIndex(ps, symbol) = 0 THEN Zero ELSE ps[PosIndex(ps, symbol)].qty

\* The step is a submit_order call of the given side that returned an order.
Submitted(side) ==
    last'.op = "submit_order" /\ last'.side = side /\ last'.error = "ok"

\* The order the step appended.
NewOrder == orders'[Len(orders')]

\* The step appended exactly one order, of the given side.
Filled(side) == Len(orders') = Len(orders) + 1 /\ NewOrder.side = side

\* C1: every successful BUY through submit_order takes exactly
\* requested_qty * fill_price from cash, and the order's cash fee is 0.
C1_BuyCash ==
    [][Submitted(BUY) =>
          /\ Filled(BUY)
          /\ cash' = Sub(cash, Mul(last'.qty, Float(NewOrder.filled_avg_price)))
          /\ NewOrder.sim_fee_cash = Zero]_vars

C1_Witness ==
    /\ last.op = "submit_order" /\ last.side = BUY /\ last.error = "ok"
    /\ last.symbol \in CryptoSymbols
    /\ last.fill_price = P2
    /\ cash = Sub(initial_cash, Mul(last.qty, P2))
    /\ Lt(cash, initial_cash)

\* C2: a successful BUY credits requested_qty * (1 - 0.0025) to the position
\* of a crypto symbol and exactly requested_qty to that of an equity symbol;
\* a symbol without a holding gets a position of that quantity.
C2_BuyFilledQty ==
    [][Submitted(BUY) =>
          LET f == IF last'.symbol \in CryptoSymbols
                   THEN Mul(last'.qty, Sub(One, R(25, 10000)))
                   ELSE last'.qty
          IN  /\ Float(NewOrder.filled_qty) = f
              /\ last'.symbol \in PosKeys(positions')
              /\ HeldQty(positions', last'.symbol) = Add(HeldQty(positions, last'.symbol), f)]_vars

C2_Witness ==
    /\ last.op = "submit_order" /\ last.side = BUY /\ last.error = "ok"
    /\ last.symbol = BTCUSD
    /\ Len(orders) = 1
    /\ HeldQty(positions, BTCUSD) = Mul(last.qty, R(9975, 10000))
    /\ HeldQty(positions, BTCUSD) # last.qty

\* Mark price of a held symbol: the tape price if the symbol has a tape
\* entry, the position's average entry price otherwise.
MarkPrice(symbol) ==
    IF symbol \in DOMAIN current_prices THEN current_prices[symbol]
    ELSE positions[PosIndex(positions, symbol)].avg_entry_price

RECURSIVE MarketValue(_)
MarketValue(S) ==
    IF S = {} THEN Zero
    ELSE LET s == CHOOSE x \in S : TRUE
         IN  Add(Mul(HeldQty(positions, s), MarkPrice(s)), MarketValue(S \ {s}))

\* C3: in every reachable state get_account reports
\* equity = cash + sum of qty * markPrice over the held positions,
\* long_market_value = equity - cash and buying_power = cash.
C3_EquityIdentity ==
    LET acc == get_account(Broker, initial_cash)
    IN  /\ Float(acc.equity) = Add(cash, MarketValue(PosKeys(positions)))
        /\ Float(acc.long_market_value) = Sub(Float(acc.equity), cash)
        /\ Float(acc.buying_power) = cash
        /\ Float(acc.cash) = cash

C3_Witness ==
    /\ PosKeys(positions) = {BTCUSD, AAPL}
    /\ AAPL \notin DOMAIN current_prices
    /\ BTCUSD \in DOMAIN current_prices
    /\ current_prices[BTCUSD] # positions[PosIndex(positions, BTCUSD)].avg_entry_price
    /\ last.op = "update_price"

\* C4: a submit_order call that fails for lack of price data, cash or
\* position leaves cash, positions, tape, order list and ledger unchanged.
C4_FailedOrderNoChange ==
    [][(/\ last'.op = "submit_order"
        /\ last'.error \in {"NoPriceData", "InsufficientCash", "InsufficientPosition"}) =>
          UNCHANGED <<cash, positions, current_prices, orders, ledger>>]_vars

C4_Witness ==
    /\ last.op = "submit_order" /\ last.error = "InsufficientCash"
    /\ Len(orders) = 1 /\ Len(ledger) = 1
    /\ Len(positions) = 1
    /\ DOMAIN current_prices # {}

\* The sell fee as the claim states it, of quantity q at price p.
StatedSellFee(symbol, q, p) ==
    IF symbol \in CryptoSymbols
    THEN Mul(Mul(q, p), R(25, 10000))
    ELSE Add(Max(R(1, 100), Round2Mul(Mul(q, p), R(8, 1000000))),
             Min(Max(R(1, 100), Round2Mul(q, R(166, 1000000))), R(830, 100)))

\* C5: every successful SELL of q at fill price p adds q*p minus the sell fee
\* to cash (0.25% of q*p for crypto, SEC + TAF for an equity), and the order
\* records that fee.
C5_SellCash ==
    [][Filled(SELL) =>
          LET q   == Float(NewOrder.qty)
              p   == Float(NewOrder.filled_avg_price)
              fee == StatedSellFee(NewOrder.symbol, q, p)
          IN  /\ last'.op = "submit_order" => (Submitted(SELL) /\ q = last'.qty)
              /\ cash' = Sub(Add(cash, Mul(q, p)), fee)
              /\ NewOrder.sim_fee_cash = fee]_vars

C5_Witness ==
    /\ last.op = "submit_order" /\ last.side = SELL /\ last.error = "ok"
    /\ last.symbol = AAPL
    /\ last.fill_price = P1
    /\ orders[Len(orders)].sim_fee_cash = R(2, 100)
    /\ Lt(cash, initial_cash)

\* Average entry price of symbol's position (0 when there is none).
AvgEntry(ps, symbol) ==
    IF PosIndex(ps, symbol) = 0 THEN Zero ELSE ps[PosIndex(ps, symbol)].avg_entry_price

\* C6: a successful SELL of q from a holding h removes the symbol from
\* positions if h - q <= 1e-9, and otherwise leaves quantity h - q at an
\* unchanged average entry price.
C6_SellPosition ==
    [][Filled(SELL) =>
          LET s == NewOrder.symbol
              q == Float(NewOrder.qty)
              h == HeldQty(positions, s)
          IN  IF Le(Sub(h, q), R(1, 1000000000))
              THEN s \notin PosKeys(positions')
              ELSE /\ s \in PosKeys(positions')
                   /\ HeldQty(positions', s) = Sub(h, q)
                   /\ AvgEntry(positions', s) = AvgEntry(positions, s)]_vars

\* A sell that left a residual of one epsilon: three lots bought, one sold.
C6_Witness ==
    /\ Len(orders) = 2
    /\ orders[1].side = BUY /\ orders[1].symbol = AAPL
    /\ Float(orders[1].filled_qty) = Mul(R(3, 1), Lot)
    /\ orders[2].side = SELL /\ orders[2].symbol = AAPL
    /\ Float(orders[2].qty) = Lot
    /\ AAPL \notin PosKeys(positions)

\* Side of the latest order for symbol ("-" when there is none).
LatestSide(symbol) ==
    LET I == {i \in 1..Len(orders) : orders[i].symbol = symbol}
    IN  IF I = {} THEN "-"
        ELSE orders[CHOOSE i \in I : \A j \in I : j <= i].side

\* C7 as stated: no stored position has a negative quantity or a quantity
\* below the 1e-9 epsilon.
C7_Original ==
    \A i \in 1..Len(positions) :
        Le(Zero, positions[i].qty) /\ ~Lt(positions[i].qty, R(1, 1000000000))

\* C7 amended: every stored position has quantity > 0, and one whose latest
\* fill was a SELL has quantity > 1e-9.
C7_Amended ==
    \A i \in 1..Len(positions) :
        /\ Lt(Zero, positions[i].qty)
        /\ LatestSide(positions[i].symbol) = SELL => Lt(R(1, 1000000000), positions[i].qty)

C7_Witness ==
    /\ Len(positions) = 1
    /\ LatestSide(positions[1].symbol) = SELL
    /\ last.op = "submit_order" /\ last.side = SELL /\ last.error = "ok"
    /\ Lt(positions[1].qty, Float(orders[1].filled_qty))

\* C8: a successful BUY crediting f at price p to a position of quantity Q
\* and average A gives quantity Q + f and average (Q*A + f*p) / (Q + f); two
\* buys of equal requested size from flat give the mean of the two prices.
C8_WeightedAverage ==
    /\ [][Submitted(BUY) =>
             LET s == last'.symbol
                 Q == HeldQty(positions, s)
                 A == AvgEntry(positions, s)
                 f == Float(NewOrder.filled_qty)
                 p == Float(NewOrder.filled_avg_price)
             IN  /\ HeldQty(positions', s) = Add(Q, f)
                 /\ AvgEntry(positions', s) = Div(Add(Mul(Q, A), Mul(f, p)), Add(Q, f))]_vars
    /\ []((/\ Len(orders) = 2
           /\ orders[1].side = BUY /\ orders[2].side = BUY
           /\ orders[1].symbol = orders[2].symbol
           /\ orders[1].qty = orders[2].qty) =>
             AvgEntry(positions, orders[1].symbol) =
                 Div(Add(Float(orders[1].filled_avg_price),
                         Float(orders[2].filled_avg_price)), R(2, 1)))

C8_Witness ==
    /\ Len(orders) = 2
    /\ orders[1].side = BUY /\ orders[2].side = BUY
    /\ orders[1].symbol = BTCUSD /\ orders[2].symbol = BTCUSD
    /\ orders[1].qty = orders[2].qty
    /\ Float(orders[1].filled_avg_price) = P1
    /\ Float(orders[2].filled_avg_price) = P2
    /\ AvgEntry(positions, BTCUSD) = R(150000, 1)

\* C9: a BUY at a resolved fill price p fails with the insufficient-cash
\* error exactly when cash < qty * p; a BUY costing exactly the cash
\* succeeds and leaves cash at 0.
C9_InsufficientCash ==
    [][(last'.op = "submit_order" /\ last'.side = BUY /\ last'.fill_price # None) =>
          LET cost == Mul(last'.qty, last'.fill_price)
          IN  /\ (last'.error = "InsufficientCash") <=> Lt(cash, cost)
              /\ ~Lt(cash, cost) => last'.error = "ok"
              /\ cash = cost => cash' = Zero]_vars

C9_Witness ==
    /\ last.op = "submit_order" /\ last.side = BUY /\ last.error = "ok"
    /\ cash = Zero
    /\ Mul(last.qty, last.fill_price) = initial_cash
    /\ Len(orders) = 1

Returned(b) == b.orders[Len(b.orders)]

\* Outcome of submit_order in the current state against a stated price
\* resolution: supplied tells whether current_price counts as supplied.
ResolvesAs(symbol, qty, side, a, supplied) ==
    LET r      == submit_order(Broker, symbol, qty, side, a[1], a[2], a[3])
        stated == IF a[1] = LIMIT THEN a[2]
                  ELSE IF supplied THEN a[3]
                  ELSE TapeGet(current_prices, symbol)
    IN  /\ (r.error = "NoPriceData") <=>
               (a[1] = MARKET /\ ~supplied /\ symbol \notin DOMAIN current_prices)
        /\ r.error = "ok" => Float(Returned(r.b).filled_avg_price) = stated

\* C11 as stated: in every reachable state, an order fills at limit_price if
\* it is a LIMIT order, at the supplied current_price if it is a MARKET order
\* and one is supplied (any value other than None), at the tape price
\* otherwise; it fails for lack of price data exactly when it is a MARKET
\* order with neither.
C11_Original ==
    \A symbol \in Symbols, side \in {BUY, SELL}, a \in PriceArgs :
        ResolvesAs(symbol, PriceQty(symbol), side, a, a[3] # None)

\* C11 amended: as above, with a supplied current_price of 0.0 counting as
\* not supplied (the tape price is used, and without a tape entry the order
\* fails for lack of price data).
C11_Amended ==
    \A symbol \in Symbols, side \in {BUY, SELL}, a \in PriceArgs :
        ResolvesAs(symbol, PriceQty(symbol), side, a, a[3] # None /\ a[3] # Zero)

\* A market order filled at the supplied price while the tape held another.
C11_Witness ==
    /\ last.op = "submit_order" /\ last.error = "ok"
    /\ orders[Len(orders)].type = MARKET
    /\ Float(orders[Len(orders)].filled_avg_price) = P2
    /\ last.symbol \in DOMAIN current_prices
    /\ current_prices[last.symbol] = P1


\* Symbols that are equities under every reading of the naming convention.
EquitySymbols == {AAPL, FORD}

\* The two components of the equity sell fee as the claim states them.
StatedSecFee(q, p) == Max(R(1, 100), Round2Mul(Mul(q, p), R(8, 1000000)))

StatedTafFee(q) == Min(Max(R(1, 100), Round2Mul(q, R(166, 1000000))), R(830, 100))

\* C12: an equity BUY takes exactly q*p from cash and records no fee; an
\* equity SELL of q at p is charged SEC + TAF as stated, at least 0.02 in
\* all, with the TAF at most 8.30; 100 shares at 160 cost 0.13 + 0.02 and a
\* block of 60,000 at 1 costs 0.48 + 8.30.
C12_EquityFees ==
    /\ [](\A i \in 1..Len(orders) :
             orders[i].symbol \in EquitySymbols =>
                 LET q   == Float(orders[i].qty)
                     p   == Float(orders[i].filled_avg_price)
                     fee == orders[i].sim_fee_cash
                 IN  IF orders[i].side = BUY THEN fee = Zero
                     ELSE /\ fee = Add(StatedSecFee(q, p), StatedTafFee(q))
                          /\ Le(R(2, 100), fee)
                          /\ Le(Sub(fee, StatedSecFee(q, p)), R(830, 100))
                          /\ (q = R(100, 1) /\ p = R(160, 1)) => fee = R(15, 100)
                          /\ (q = R(60000, 1) /\ p = One) => fee = R(878, 100))
    /\ [][(Len(orders') = Len(orders) + 1 /\ NewOrder.symbol \in EquitySymbols) =>
             LET q == Float(NewOrder.qty)
                 p == Float(NewOrder.filled_avg_price)
             IN  cash' = IF NewOrder.side = BUY
                         THEN Sub(cash, Mul(q, p))
                         ELSE Sub(Add(cash, Mul(q, p)), NewOrder.sim_fee_cash)]_vars

\* 100 shares bought and sold at 160: the sale cost 0.15.
C12_Witness ==
    /\ Len(orders) = 2
    /\ orders[1].symbol = AAPL /\ orders[1].side = BUY
    /\ orders[2].symbol = AAPL /\ orders[2].side = SELL
    /\ Float(orders[2].qty) = R(100, 1)
    /\ Float(orders[2].filled_avg_price) = R(160, 1)
    /\ orders[2].sim_fee_cash = R(15, 100)
    /\ cash = Sub(ShareInitialCash, R(15, 100))


\* C13 as stated: every order of a symbol containing "/" got the crypto
\* treatment (asset class CRYPTO, 0.25% taken in kind on a buy, 0.25% of the
\* proceeds in cash on a sell) and every order of a symbol without "/" the
\* equity treatment.
C13_SlashIsCrypto ==
    \A i \in 1..Len(orders) :
        LET o     == orders[i]
            slash == Contains(o.symbol, <<"/">>)
            q     == Float(o.qty)
            p     == Float(o.filled_avg_price)
        IN  /\ o.asset_class = IF slash THEN CRYPTO ELSE US_EQUITY
            /\ o.side = BUY =>
                   /\ Float(o.filled_qty) = IF slash THEN Mul(q, Sub(One, R(25, 10000))) ELSE q
                   /\ o.sim_fee_cash = Zero
            /\ o.side = SELL =>
                   o.sim_fee_cash = IF slash THEN Mul(Mul(q, p), R(25, 10000))
                                    ELSE Add(StatedSecFee(q, p), StatedTafFee(q))

\* C14 as stated: the cash fee of every SELL order equals
\* _calculate_fees(symbol, qty, price, SELL).
C14_FeeHelperAgrees ==
    \A i \in 1..Len(orders) :
        orders[i].side = SELL =>
            orders[i].sim_fee_cash =
                _calculate_fees(orders[i].symbol, Float(orders[i].qty),
                                Float(orders[i].filled_avg_price), SELL)


\* get_account's equity for the given broker fields.
EquityOf(c, ps, tape) ==
    Float(get_account([cash |-> c, positions |-> ps, orders |-> <<>>, ledger |-> <<>>,
                       current_prices |-> tape], initial_cash).equity)

\* get_account's equity in the current state.
Equity == EquityOf(cash, positions, current_prices)

\* Mark price of a symbol held in ps: its tape price, else its entry price.
MarkPriceOf(ps, tape, s) == IF s \in DOMAIN tape THEN tape[s] ELSE AvgEntry(ps, s)

\* C15: a successful BUY of q at fill price p, of a symbol marked at p after
\* the buy and (if it was held) before it, lowers equity by q * p * 0.0025
\* for the crypto symbol and leaves it unchanged for an equity; 1 BTC at
\* 50,000 takes equity from 100,000 to 99,875.
C15_BuyEquityDrop ==
    [][Submitted(BUY) =>
          LET s      == last'.symbol
              q      == last'.qty
              p      == last'.fill_price
              before == EquityOf(cash, positions, current_prices)
              after  == EquityOf(cash', positions', current_prices')
          IN  (/\ s \in CryptoSymbols \cup EquitySymbols
               /\ MarkPriceOf(positions', current_prices', s) = p
               /\ s \in PosKeys(positions) => MarkPriceOf(positions, current_prices, s) = p) =>
                  /\ after = IF s \in CryptoSymbols
                             THEN Sub(before, Mul(Mul(q, p), R(25, 10000)))
                             ELSE before
                  /\ (s = BTCUSD /\ q = One /\ p = R(50000, 1) /\ before = R(100000, 1)) =>
                         after = R(99875, 1)]_vars

\* 1 BTC bought at the tape price of 50,000 out of 100,000.
C15_Witness ==
    /\ last.op = "submit_order" /\ last.side = BUY /\ last.error = "ok"
    /\ last.symbol = BTCUSD /\ last.qty = One /\ last.fill_price = R(50000, 1)
    /\ Len(orders) = 1
    /\ BTCUSD \in DOMAIN current_prices /\ current_prices[BTCUSD] = R(50000, 1)
    /\ Equity = R(99875, 1)
    /\ cash = R(50000, 1)


\* The broker fields after the step.
BrokerAfter == [cash |-> cash', positions |-> positions', orders |-> orders',
                ledger |-> ledger', current_prices |-> current_prices',
                epoch |-> engine.epoch]

\* The step liquidated symbol s: one MARKET SELL of the whole holding at the
\* tape price, cash up by proceeds minus fee, position gone, one order and one
\* ledger entry appended, exactly as submit_order would.
Liquidated(s) ==
    LET h   == HeldQty(positions, s)
        p   == current_prices[s]
        fee == StatedSellFee(s, h, p)
    IN  /\ last'.error = "ok"
        /\ BrokerAfter = submit_order(Broker, s, h, SELL, MARKET, None, None).b
        /\ s \notin PosKeys(positions')
        /\ get_open_position(BrokerAfter, s).result.qty = Zero
        /\ cash' = Add(cash, Sub(Mul(h, p), fee))
        /\ Len(orders') = Len(orders) + 1 /\ SubSeq(orders', 1, Len(orders)) = orders
        /\ Len(ledger') = Len(ledger) + 1 /\ SubSeq(ledger', 1, Len(ledger)) = ledger
        /\ NewOrder.symbol = s /\ NewOrder.side = SELL /\ NewOrder.type = MARKET
        /\ Float(NewOrder.qty) = h /\ Float(NewOrder.filled_avg_price) = p
        /\ NewOrder.sim_fee_cash = fee

NothingChanged == UNCHANGED <<cash, positions, orders, ledger, current_prices>>

FirstUnpriced(ps, tape) ==
    LET U == {i \in 1..Len(ps) : ps[i].symbol \notin DOMAIN tape}
    IN  IF U = {} THEN Len(ps) + 1 ELSE CHOOSE i \in U : \A j \in U : i <= j

\* Outcome r of close_all_positions on broker b that sold the first m
\* positions, in dict order, and left the others: one SELL order of the whole
\* holding per sold symbol, appended to the order list.
SoldFirst(b, r, m) ==
    LET n == Len(b.orders)
    IN  /\ r.b.positions = SubSeq(b.positions, m + 1, Len(b.positions))
        /\ Len(r.b.orders) = n + m
        /\ SubSeq(r.b.orders, 1, n) = b.orders
        /\ Len(r.b.ledger) = Len(b.ledger) + m
        /\ \A j \in 1..m :
               /\ r.b.orders[n + j].symbol = b.positions[j].symbol
               /\ r.b.orders[n + j].side = SELL
               /\ Float(r.b.orders[n + j].qty) = b.positions[j].qty

C18_FlatPosition ==
    /\ [](\A s \in ShareSymbols :
             LET r == get_open_position(Broker, s)
             IN  /\ r.error = "ok"
                 /\ r.b = Broker
                 /\ s \notin PosKeys(positions) =>
                        r.result = [symbol |-> s, qty |-> Zero, avg_entry_price |-> Zero,
                                    market_value |-> Zero, status |-> "closed"])
    /\ [][last'.op = "get_open_position" =>
             /\ last'.error = "ok"
             /\ NothingChanged
             /\ last'.symbol \notin PosKeys(positions) => last'.qty = Zero
             /\ last'.symbol \in PosKeys(positions) =>
                    last'.qty = HeldQty(positions, last'.symbol)]_vars

\* The lookup of a symbol that was bought and then sold out.
C18_Witness ==
    /\ last.op = "get_open_position" /\ last.error = "ok"
    /\ last.qty = Zero
    /\ last.symbol \notin PosKeys(positions)
    /\ Len(orders) = 2
    /\ orders[1].symbol = last.symbol /\ orders[1].side = BUY
    /\ orders[2].symbol = last.symbol /\ orders[2].side = SELL


\* s is an initial segment of t.
IsPrefix(s, t) == Len(s) <= Len(t) /\ SubSeq(t, 1, Len(s)) = s

\* C19: every step leaves the existing orders and ledger entries in place and
\* unmodified; a successful submit_order or close_position appends exactly
\* one order and one ledger entry, close_all_positions one of each per
\* position it closed, a failed call and every other operation none.
C19_AppendOnly ==
    [][LET dOrders == Len(orders') - Len(orders)
           dLedger == Len(ledger') - Len(ledger)
       IN  /\ IsPrefix(orders, orders')
           /\ IsPrefix(ledger, ledger')
           /\ dOrders = dLedger
           /\ IF last'.op \in {"submit_order", "close_position"}
              THEN dOrders = IF last'.error = "ok" THEN 1 ELSE 0
              ELSE IF last'.op = "close_all_positions"
              THEN dOrders = Len(positions) - Len(positions')
              ELSE dOrders = 0]_vars

\* A cancellation was attempted on an order of the list.
C19_Witness ==
    /\ last.op = "cancel_order_by_id" /\ last.error = "CannotCancel"
    /\ Len(orders) = 2 /\ Len(ledger) = 2
    /\ orders[1].status = FILLED /\ orders[2].status = FILLED


\* C20: in every reachable state every order has status FILLED; the open
\* bucket of get_orders is empty, cancel_orders finds nothing to cancel and
\* changes no order, and the closed bucket holds the same orders as "all",
\* which is the whole list, newest first.
C20_AllFilled ==
    /\ \A i \in 1..Len(orders) : orders[i].status = "filled"
    /\ get_orders(Broker, "open", DefaultLimit) = <<>>
    /\ canceled_count(orders) = 0
    /\ cancel_orders(orders) = orders
    /\ get_orders(Broker, "closed", DefaultLimit) = get_orders(Broker, "all", DefaultLimit)
    /\ get_orders(Broker, "all", DefaultLimit) = Reverse(orders)

\* cancel_orders was called with orders of both sides in the list.
C20_Witness ==
    /\ last.op = "cancel_orders"
    /\ Len(orders) = 2
    /\ orders[1].side = BUY /\ orders[2].side = SELL
    /\ Len(get_orders(Broker, "closed", DefaultLimit)) = 2

\* Indexes of the orders whose status falls in a bucket.
Matching(os, status) ==
    {i \in 1..Len(os) :
        \/ status = "open" /\ os[i].status \in {"new", "accepted", "pending_new"}
        \/ status = "closed" /\ os[i].status \in {"filled", "canceled", "expired"}
        \/ status = "all"}

\* C21: get_orders(status, limit) returns the orders of the requested bucket,
\* newest first, cut to the limit most recent ones; it never returns more
\* than limit orders and leaves the order list as it was.
C21_GetOrders ==
    [][last'.op = "get_orders" =>
          LET status == last'.args[1]
              limit  == last'.args[2]
              r      == last'.result
              M      == Matching(orders, status)
          IN  /\ Len(r) <= limit
              /\ Len(r) = IF Cardinality(M) < limit THEN Cardinality(M) ELSE limit
              /\ \A k \in 1..Len(r) :
                    \E i \in M : /\ Cardinality({j \in M : j > i}) = k - 1
                                 /\ r[k] = orders[i]
              /\ orders' = orders]_vars

C21_Witness ==
    /\ last.op = "get_orders"
    /\ last.args = <<"closed", 1>>
    /\ Len(orders) >= 2
    /\ last.result = <<orders[Len(orders)]>>

\* The ids under which an order is stored.
IdsOf(o) == {o.id, o.client_order_id}

\* C22: get_order_by_id returns the stored order for the id or the
\* client_order_id of any order submit_order returned and fails with "Order
\* not found" for any other id; cancel_order_by_id fails the same way for an
\* unknown id and with "Cannot cancel" for a filled order, and a failure
\* changes nothing.
C22_OrderLookup ==
    [][/\ last'.op = "get_order_by_id" =>
             LET known == {i \in 1..Len(orders) : last'.args \in IdsOf(orders[i])}
             IN  /\ known # {} => /\ last'.error = "ok"
                                  /\ \A i \in known : last'.result = orders[i]
                 /\ known = {} => last'.error = "OrderNotFound" /\ last'.result = None
                 /\ UNCHANGED <<cash, positions, orders, ledger, current_prices>>
       /\ last'.op = "cancel_order_by_id" =>
             LET known == {i \in 1..Len(orders) : last'.args \in IdsOf(orders[i])}
             IN  /\ known = {} => last'.error = "OrderNotFound"
                 /\ (\E i \in known : orders[i].status = FILLED) => last'.error = "CannotCancel"
                 /\ last'.error # "ok" =>
                        UNCHANGED <<cash, positions, orders, ledger, current_prices>>]_vars

C22_Witness ==
    /\ last.op = "get_order_by_id"
    /\ Len(orders) >= 2
    /\ last.args = orders[2].client_order_id
    /\ last.result = orders[2]

\* C23: update_price(symbol, price) changes the tape entry of that symbol and
\* nothing else, and no other operation changes the tape.
C23_TapeWrittenByUpdatePrice ==
    [][IF last'.op = "update_price"
       THEN /\ DOMAIN current_prices' = DOMAIN current_prices \cup {last'.symbol}
            /\ current_prices'[last'.symbol] = last'.fill_price
            /\ \A s \in DOMAIN current_prices \ {last'.symbol} :
                  current_prices'[s] = current_prices[s]
            /\ UNCHANGED <<cash, positions, orders, ledger>>
       ELSE current_prices' = current_prices]_vars

C23_Witness ==
    /\ last.op = "update_price"
    /\ Cardinality(DOMAIN current_prices) = 2
    /\ positions # <<>>
    /\ \E i \in 1..Len(orders) : orders[i].filled_avg_price = Str(SharePrice(AAPL))

\* The run has left run_backtest.
Ended == engine.pc \in {"done", "raised"}

\* Bars i - W .. i of the frame (counted from 0).
BarsUpTo(df, i, W) == [j \in 1..(W + 1) |-> df[i - W + j]]

\* The three steps of one index, in their order: the tape takes bar i's close,
\* the agent sees bars i - W .. i with the tape at the window's last close,
\* the snapshot holds cash and equity as the agent left them; indexes are
\* taken in ascending order from W, once each.
ReplaySteps ==
    [][/\ last'.op = "update_price" =>
             /\ engine.i = engine.window_size + Len(engine.history)
             /\ last'.fill_price = engine.df[engine.i + 1].close
             /\ current_prices'[engine.symbol] = engine.df[engine.i + 1].close
       /\ last'.op = "handle_tick" =>
             /\ last.op = "update_price"
             /\ last'.args = <<engine.symbol,
                               BarsUpTo(engine.df, engine.i, engine.window_size)>>
             /\ current_prices[engine.symbol] = engine.df[engine.i + 1].close
             /\ engine'.i = engine.i
       /\ last'.op = "get_account" =>
             /\ last.op = "handle_tick"
             /\ engine'.history =
                    Append(engine.history,
                           [timestamp |-> engine.i,
                            cash |-> cash,
                            equity |-> EquityOf(cash, positions, current_prices),
                            price |-> engine.df[engine.i + 1].close])
             /\ engine'.i = engine.i + 1
       /\ engine'.history # engine.history /\ engine'.run = engine.run =>
             last'.op = "get_account"]_vars

\* The snapshots taken so far are those of the indexes W, W + 1, ...
SnapshotsInOrder ==
    \A k \in 1..Len(engine.history) :
        engine.history[k].timestamp = engine.window_size + k - 1

\* C24 as stated: the steps above, and the run ends with exactly N - W
\* snapshots.
C24_Original ==
    /\ ReplaySteps
    /\ [](SnapshotsInOrder
           /\ (Ended => /\ engine.pc = "done"
                         /\ Len(engine.history) = Len(engine.df) - engine.window_size))

\* C24 (amended): for N > W the loop performs the three steps in their order
\* for the indexes W, W + 1, ... ascending and once each until the agent
\* raises, which ends the run without a history; if no call raised the run
\* ends with exactly N - W snapshots. For N <= W no step is performed and
\* the run ends with a KeyError instead of an empty history.
C24_Amended ==
    /\ ReplaySteps
    /\ [](SnapshotsInOrder
           /\ (Ended =>
                 IF Len(engine.df) <= engine.window_size
                 THEN /\ engine.pc = "raised"
                      /\ engine.error = "KeyError"
                      /\ engine.history = <<>>
                      /\ last.op = "run_backtest"
                 ELSE \/ /\ engine.pc = "done"
                         /\ Len(engine.history) = Len(engine.df) - engine.window_size
                      \/ /\ engine.pc = "raised"
                         /\ last.op = "handle_tick"
                         /\ last.error = engine.error
                         /\ Len(engine.history) < Len(engine.df) - engine.window_size))

C24_Witness ==
    /\ engine.pc = "done"
    /\ engine.window_size = 2
    /\ Len(engine.history) = 5
    /\ Len(orders) = 3

\* C25: a second run over the same bars with the same window, agent and
\* initial cash on a fresh broker yields the same snapshots at every step
\* and ends the same way, whatever order ids and clock values it draws.
C25_Deterministic ==
    engine.run = 2 =>
        /\ Len(engine.history) <= Len(engine.first.history)
        /\ \A k \in 1..Len(engine.history) : engine.history[k] = engine.first.history[k]
        /\ Ended => /\ engine.history = engine.first.history
                     /\ engine.pc = engine.first.pc
                     /\ engine.error = engine.first.error

C25_Witness ==
    /\ engine.run = 2
    /\ engine.pc = "done"
    /\ Len(orders) = 3
    /\ orders[1].id > SecondEpoch
    /\ ledger[1].time >= SecondEpoch

\* The symbols of the matrix.
Cells == {engine.symbols[k] : k \in 1..Len(engine.symbols)}

\* The step recorded result for the cell at hand, left the other cells'
\* results alone and went on to the next cell.
RecordedOnly(result) ==
    /\ DOMAIN engine'.results = DOMAIN engine.results \cup {engine.symbol}
    /\ engine'.results[engine.symbol] = result
    /\ \A s \in DOMAIN engine.results \ {engine.symbol} :
          engine'.results[s] = engine.results[s]
    /\ engine'.k = engine.k + 1
    /\ engine'.pc = "cell"

\* C26: an exception raised while fetching or simulating a cell is recorded
\* as ERROR for that cell only and the matrix goes on with the next cell; at
\* the end every cell holds exactly one result: a final equity, NO_DATA or
\* ERROR.
C26_CellIsolation ==
    /\ [][/\ (last'.op = "fetch_history" /\ last'.error # "ok") =>
                RecordedOnly(Cell("ERROR", None))
          /\ (last'.op = "matrix_results" /\ engine.pc = "raised") =>
                RecordedOnly(Cell("ERROR", None))
          /\ \A s \in DOMAIN engine.results :
                s \in DOMAIN engine'.results /\ engine'.results[s] = engine.results[s]]_vars
    /\ [](engine.pc = "finished" =>
                 /\ DOMAIN engine.results = Cells
                 /\ \A s \in Cells :
                       \/ engine.results[s] \in {Cell("NO_DATA", None), Cell("ERROR", None)}
                       \/ /\ engine.results[s].marker = "equity"
                          /\ engine.results[s].value # None)

C26_Witness ==
    /\ engine.pc = "finished"
    /\ engine.data[BTCUSD].error # "ok"
    /\ engine.results[BTCUSD].marker = "ERROR"
    /\ engine.data[AAPL].error = "ok"
    /\ engine.results[AAPL].marker = "ERROR"
    /\ engine.results[ETHUSD].marker = "equity"

\* The steps of run_backtest.
InRunBacktest == engine.pc \in {"tape", "agent", "snapshot", "done", "raised"}

\* C27: a symbol whose history has fewer bars than the window size gets
\* NO_DATA, no exception and no ERROR, and run_backtest is not invoked for it.
C27_NoData ==
    /\ [][(/\ last'.op = "fetch_history"
            /\ last'.error = "ok"
            /\ Len(last'.result) < engine.window_size) =>
               RecordedOnly(Cell("NO_DATA", None))]_vars
    /\ []((InRunBacktest => Len(engine.df) >= engine.window_size)
           /\ \A s \in DOMAIN engine.results :
                 (engine.data[s].error = "ok"
                     /\ Len(engine.data[s].df) < engine.window_size) =>
                        engine.results[s] = Cell("NO_DATA", None))

C27_Witness ==
    /\ engine.pc = "finished"
    /\ Len(engine.data[AAPL].df) = 9
    /\ engine.results[AAPL].marker = "NO_DATA"
    /\ engine.results[BTCUSD].marker = "equity"

\* C28: every cell starts on a fresh broker (cash 10,000, no positions, empty
\* tape, order list and ledger), and a cell's result depends on nothing but
\* its own symbol and data: cells of the same asset class that fetched the
\* same history hold the same result, whatever ran before them.
C28_FreshBroker ==
    /\ engine.pc = "fetch" =>
          /\ initial_cash = MatrixInitialCash
          /\ cash = MatrixInitialCash
          /\ positions = <<>>
          /\ current_prices = <<>>
          /\ orders = <<>>
          /\ ledger = <<>>
    /\ \A s1, s2 \in DOMAIN engine.results :
          (engine.data[s1] = engine.data[s2] /\ _is_crypto(s1) = _is_crypto(s2)) =>
              engine.results[s1] = engine.results[s2]

C28_Witness ==
    /\ engine.pc = "finished"
    /\ engine.data[BTCUSD] = engine.data[ETHUSD]
    /\ engine.results[ETHUSD].marker = "equity"
    /\ engine.results[ETHUSD].value # MatrixInitialCash
    /\ engine.results[AAPL].marker = "equity"
    /\ engine.results[AAPL].value # MatrixInitialCash

\* The bar callback that has just run, its symbol and that symbol's buffer.
OnBarDone == last.op = "_on_bar"

BarSymbol == last.args[1]

BarBuffer == engine.bar_data[BarSymbol]

\* The window handed to the agent is the window_size + 1 most recent bars of
\* the symbol, the arriving bar last.
MostRecentWindow ==
    /\ Len(last.result.window) = engine.window_size + 1
    /\ \A k \in 1..(engine.window_size + 1) :
          last.result.window[k].ts = last.args[2].ts - (engine.window_size + 1 - k)
    /\ last.result.window[engine.window_size + 1] = last.args[2]

\* C29 as stated: on every bar that leaves the symbol's buffer with at least
\* window_size rows the agent is invoked with the window_size + 1 most recent
\* bars.
C29_Original ==
    (OnBarDone /\ Len(BarBuffer) >= engine.window_size) =>
        /\ last.result.invoked
        /\ MostRecentWindow

\* C29 (amended): the agent is invoked for a symbol on every arriving bar of
\* that symbol that leaves its buffer with at least window_size + 1 rows, with
\* the window_size + 1 most recent bars as the window, whether or not earlier
\* calls raised; on a bar that leaves fewer rows (the bar that first brings the
\* buffer to window_size among them) the agent is not invoked.
C29_Amended ==
    OnBarDone =>
        /\ last.result.invoked <=> Len(BarBuffer) >= engine.window_size + 1
        /\ last.result.invoked => MostRecentWindow

C29_Witness ==
    /\ OnBarDone
    /\ engine.window_size = 2
    /\ engine.received[BarSymbol] = MaxBars
    /\ Len(BarBuffer) = 6
    /\ last.result.invoked
    /\ last.result.window[1].ts = 4
    /\ last.error = "APIError"

\* C30: a buffer that has reached window_size rows has at least window_size
\* rows after every later bar callback, a callback shortens a buffer only
\* to 3 * window_size rows, and a bar of one symbol leaves the other
\* symbols' buffers as they were.
C30_NoRegression ==
    [][\A s \in LiveSymbols :
          /\ Len(engine.bar_data[s]) >= engine.window_size =>
                Len(engine'.bar_data[s]) >= engine.window_size
          /\ Len(engine'.bar_data[s]) <= Len(engine.bar_data[s]) =>
                \/ engine'.bar_data[s] = engine.bar_data[s]
                \/ Len(engine'.bar_data[s]) = 3 * engine.window_size
          /\ (last'.op # "_on_bar" \/ s # last'.args[1]) =>
                engine'.bar_data[s] = engine.bar_data[s]]_vars

C30_Witness ==
    /\ OnBarDone
    /\ engine.window_size = 2
    /\ engine.received[BTCUSD] = MaxBars
    /\ Len(engine.bar_data[BTCUSD]) = 6
    /\ engine.bar_data[BTCUSD][1].ts = 1
    /\ Len(engine.bar_data[ETHUSD]) = 3
    /\ last.args[1] = BTCUSD

\* The buffer of symbol s holds the bars of s that arrived last, oldest first:
\* the bars are numbered by arrival, engine.received[s] of them have arrived.
MostRecentBars(s) ==
    \A k \in 1..Len(engine.bar_data[s]) :
        engine.bar_data[s][k].ts = engine.received[s] - Len(engine.bar_data[s]) + k - 1

\* C31 as stated: every buffer holds at most 3 * window_size bars, the most
\* recently arrived ones in arrival order.
C31_Original ==
    \A s \in LiveSymbols :
        /\ Len(engine.bar_data[s]) <= 3 * engine.window_size
        /\ MostRecentBars(s)

\* C31 (amended): for window_size >= 1 every buffer holds at most
\* 3 * window_size bars after every bar callback; for every window_size it
\* holds exactly the most recently arrived bars of its symbol in arrival
\* order.
C31_Amended ==
    \A s \in LiveSymbols :
        /\ engine.window_size >= 1 => Len(engine.bar_data[s]) <= 3 * engine.window_size
        /\ MostRecentBars(s)

C31_Witness ==
    /\ OnBarDone
    /\ engine.window_size = 1
    /\ engine.received[ETHUSD] = 5
    /\ Len(engine.bar_data[ETHUSD]) = 3
    /\ engine.bar_data[ETHUSD][1].ts = 2
    /\ engine.bar_data[ETHUSD][3] = last.args[2]

\* C32: on every exit of start after the stream has been started, shutdown
\* invokes stop_ws exactly once, attempts the final account-state logging
\* whether or not stop_ws raised, swallows a failure of either step and
\* completes with is_running false.
C32_Shutdown ==
    /\ [][/\ engine'.stop_ws_calls # engine.stop_ws_calls =>
                /\ engine.pc = "stop_ws"
                /\ engine'.stop_ws_calls = engine.stop_ws_calls + 1
          /\ engine'.final_logs # engine.final_logs =>
                /\ last.op = "stop_ws"
                /\ engine'.final_logs = engine.final_logs + 1]_vars
    /\ []((engine.pc \in {"constructed", "streaming"} =>
              engine.stop_ws_calls = 0 /\ engine.final_logs = 0)
          /\ (engine.pc = "stopped" =>
                /\ engine.stop_ws_calls = 1
                /\ engine.final_logs = 1
                /\ ~engine.is_running
                /\ engine.raised = Propagated(engine.exit)))
    /\ [](last.op = "_run_forever" => <>(engine.pc = "stopped"))

C32_Witness ==
    /\ engine.pc = "stopped"
    /\ engine.exit = "ConnectionError"
    /\ engine.stop_ws_calls = 1
    /\ engine.stop_ws_error = "WebSocketError"
    /\ engine.final_logs = 1
    /\ last.op = "shutdown"
    /\ last.error = "APIError"
    /\ Len(engine.bar_data[BTCUSD]) = 3

\* The bar callback that has just run ended with a logged evaluation error.
EvaluationFailed == OnBarDone /\ last.result.invoked /\ last.error # "ok"

\* C33: an exception raised while evaluating a symbol does not leave the bar
\* callback: the engine is still streaming, the bar is in its symbol's
\* buffer and every buffer holds its most recent bars; the next bar of this
\* or another symbol is buffered and evaluated as after a successful
\* evaluation.
C33_EvaluationErrorContained ==
    /\ [](EvaluationFailed =>
            /\ engine.pc = "streaming"
            /\ engine.is_running
            /\ BarBuffer[Len(BarBuffer)] = last.args[2]
            /\ \A s \in LiveSymbols : MostRecentBars(s))
    /\ [][(EvaluationFailed /\ last'.op = "_on_bar") =>
            /\ engine'.bar_data[last'.args[1]] =
                  Trimmed(Append(engine.bar_data[last'.args[1]], last'.args[2]),
                          engine.window_size)
            /\ \A s \in LiveSymbols \ {last'.args[1]} :
                  engine'.bar_data[s] = engine.bar_data[s]
            /\ last'.result.invoked <=>
                  Len(engine'.bar_data[last'.args[1]]) >= engine.window_size + 1]_vars
    /\ [](EvaluationFailed =>
            \A s \in LiveSymbols :
                engine.received[s] < MaxBars =>
                    ENABLED (\E close \in LiveCloses, outcome \in TickOutcomes :
                                OnBar(s, close, outcome)))

C33_Witness ==
    /\ EvaluationFailed
    /\ last.error = "APIError"
    /\ engine.window_size = 1
    /\ BarSymbol = BTCUSD
    /\ engine.received[BTCUSD] = 4
    /\ Len(engine.bar_data[BTCUSD]) = 3
    /\ Len(engine.bar_data[ETHUSD]) = 2

\* The callbacks that have appended their bar and not finished evaluating.
Evaluating == {k \in 1..Len(engine.ready) : engine.ready[k].pc = "evaluate"}

\* C34: a callback that has appended its bar evaluates in the next step of
\* the event loop, before any other callback runs or any bar is handed
\* over: at most one callback is between its append and the end of its
\* evaluation, and an evaluation sees a buffer whose last bar is its own.
C34_CallbackAtomic ==
    /\ [](/\ Evaluating \subseteq {1}
          /\ Evaluating # {} => engine.busy
          /\ last.op = "_evaluate_symbol" =>
                /\ BarBuffer[Len(BarBuffer)] = last.args[2]
                /\ last.result.invoked =>
                      last.result.window[Len(last.result.window)] = last.args[2])
    /\ [][/\ Evaluating # {} =>
                /\ last'.op = "_evaluate_symbol"
                /\ last'.args = <<engine.ready[1].symbol, engine.ready[1].bar>>
          /\ last'.op = "_evaluate_symbol" =>
                /\ last.op = "append"
                /\ last'.args = last.args
                /\ engine'.bar_data = engine.bar_data]_vars

C34_Witness ==
    /\ last.op = "_evaluate_symbol"
    /\ last.result.invoked
    /\ BarSymbol = BTCUSD
    /\ Len(engine.ready) = 1
    /\ engine.ready[1].symbol = BTCUSD
    /\ engine.ready[1].pc = "append"
    /\ engine.ready[1].bar.ts = last.args[2].ts + 1

\* The replay loop is about to invoke the agent for bar i: the tape holds
\* that bar's close for the symbol.
TapeAheadOfAgent ==
    (engine.mode = "replay" /\ engine.pc = "agent") =>
        /\ engine.symbol \in DOMAIN current_prices
        /\ current_prices[engine.symbol] = engine.df[engine.i + 1].close

\* C35 as stated: in the replay loop and in the streaming loop alike the
\* tape holds the bar's close for the symbol when the agent is invoked for
\* the bar.
C35_Original ==
    /\ TapeAheadOfAgent
    /\ (engine.mode = "live" /\ OnBarDone /\ last.result.invoked) =>
          /\ BarSymbol \in DOMAIN current_prices
          /\ current_prices[BarSymbol] = last.args[2].close

\* C35 (amended): the replay loop pushes the bar's close into the broker's
\* tape before it invokes the agent; the streaming loop pushes no price into
\* the broker, the agent gets the bar's close as the last close of its
\* window.
C35_Amended ==
    /\ [](TapeAheadOfAgent)
    /\ [][last'.op = "_on_bar" =>
            /\ current_prices' = current_prices
            /\ last'.result.invoked =>
                  last'.result.window[Len(last'.result.window)].close = last'.args[2].close]_vars

C35_Witness ==
    /\ engine.mode = "replay"
    /\ engine.pc = "agent"
    /\ engine.i = 4
    /\ engine.symbol = BTCUSD
    /\ current_prices[BTCUSD] = R(10, 1)
    /\ positions # <<>>

\* C36: when the SDK's lookup raises because the position is missing,
\* get_open_position returns, without raising, a record whose qty equals 0
\* and whose symbol is the symbol that was passed in.
C36_NeutralRecord ==
    (last.op = "get_open_position" /\ last.args[2] = "missing") =>
        /\ last.error = "ok"
        /\ last.result.qty = Zero
        /\ last.result.symbol = last.args[1]

\* The step appended exactly one order: a MARKET order of side for qty of
\* symbol.
SubmittedOne(symbol, side, qty) ==
    /\ Len(orders') = Len(orders) + 1
    /\ SubSeq(orders', 1, Len(orders)) = orders
    /\ orders'[Len(orders')].symbol = symbol
    /\ orders'[Len(orders')].side = side
    /\ orders'[Len(orders')].type = MARKET
    /\ orders'[Len(orders')].qty = Str(qty)

\* The step left the broker as it was.
SubmittedNone ==
    /\ orders' = orders
    /\ ledger' = ledger
    /\ cash' = cash
    /\ positions' = positions

\* C37: a tick appends at most one order: on BUY with nothing held one
\* MARKET BUY of (cash * 0.5) / close if that quantity is positive, on SELL
\* with a holding one MARKET SELL of the held quantity, nothing otherwise;
\* when submit_order raises, handle_tick raises the same exception and the
\* broker is as it was.
C37_OneOrderPerTick ==
    [][last'.op = "handle_tick" =>
        LET symbol == last'.args[1]
            data   == last'.args[2]
            close  == data[Len(data)].close
            signal == generate_signal(data)
            held   == HeldQty(positions, symbol)
        IN  IF signal = Signal_BUY /\ ~Lt(Zero, held) /\ close # Zero
                /\ Lt(Zero, Div(Mul(cash, R(1, 2)), close))
            THEN LET qty == Div(Mul(cash, R(1, 2)), close)
                 IN  /\ last'.error =
                           submit_order(Broker, symbol, qty, BUY, MARKET, None, close).error
                     /\ IF last'.error = "ok" THEN SubmittedOne(symbol, BUY, qty)
                        ELSE SubmittedNone
            ELSE IF signal = Signal_SELL /\ Lt(Zero, held)
            THEN /\ last'.error =
                       submit_order(Broker, symbol, held, SELL, MARKET, None, close).error
                 /\ IF last'.error = "ok" THEN SubmittedOne(symbol, SELL, held)
                    ELSE SubmittedNone
            ELSE SubmittedNone]_vars

C37_Witness ==
    /\ last.op = "handle_tick"
    /\ last.error = "NoPriceData"
    /\ Len(orders) = 1
    /\ orders[1].side = BUY
    /\ orders[1].symbol = BTCUSD
    /\ orders[1].qty = Str(R(125, 1))
    /\ HeldQty(positions, BTCUSD) # Zero

\* Every close of the replayed bars is strictly positive.
PositiveCloses == \A k \in 1..Len(engine.df) : Lt(Zero, engine.df[k].close)

\* C38: in a replay of bars with strictly positive closes on a fresh broker
\* with positive cash no call of the agent fails, and the orders are those
\* of the replayed symbol, BUY and SELL in turn starting with a BUY, with
\* the position held after every BUY and absent after every SELL.
C38_Alternation ==
    PositiveCloses =>
        /\ engine.error \notin {"InsufficientCash", "InsufficientPosition", "NoPriceData"}
        /\ last.op = "handle_tick" => last.error = "ok"
        /\ \A k \in 1..Len(orders) :
              /\ orders[k].symbol = engine.symbol
              /\ orders[k].side = IF k % 2 = 1 THEN BUY ELSE SELL
        /\ Len(orders) = Len(ledger)
        /\ IF Len(orders) % 2 = 0 THEN positions = <<>>
           ELSE Lt(Zero, HeldQty(positions, engine.symbol))

C38_Witness ==
    /\ PositiveCloses
    /\ engine.run = 1
    /\ engine.symbol = AAPL
    /\ engine.pc = "snapshot"
    /\ Len(orders) = 2
    /\ orders[1].side = BUY
    /\ orders[2].side = SELL
    /\ positions = <<>>
    /\ Lt(cash, initial_cash)

\* C39: cash is never negative, and a filled SELL does not decrease it.
C39_NoMargin ==
    /\ [](~Lt(cash, Zero))
    /\ [][(last'.op = "submit_order" /\ last'.side = SELL /\ last'.error = "ok") =>
             ~Lt(cash', cash)]_vars

\* What the first k orders of the log have added to the cash: a BUY takes
\* qty * filled_avg_price, a SELL gives qty * filled_avg_price less its fee.
RECURSIVE CashFlow(_, _)
CashFlow(os, k) ==
    IF k = 0 THEN Zero
    ELSE LET o      == os[k]
             amount == Mul(Float(o.qty), Float(o.filled_avg_price))
         IN  IF o.side = BUY THEN Sub(CashFlow(os, k - 1), amount)
             ELSE Add(CashFlow(os, k - 1), Sub(amount, o.sim_fee_cash))

\* C40: cash is initial_cash less the BUY orders' qty * filled_avg_price plus
\* the SELL orders' qty * filled_avg_price less their fees; the ledger has
\* one entry per order, in the order list's order, with the order's symbol,
\* side, fill price, filled quantity and cash fee.
C40_Reconciles ==
    /\ cash = Add(initial_cash, CashFlow(orders, Len(orders)))
    /\ Len(ledger) = Len(orders)
    /\ \A i \in 1..Len(orders) :
          /\ ledger[i].symbol = orders[i].symbol
          /\ ledger[i].side = orders[i].side
          /\ ledger[i].price = Float(orders[i].filled_avg_price)
          /\ ledger[i].qty = Float(orders[i].filled_qty)
          /\ ledger[i].fee_cash = orders[i].sim_fee_cash

C40_Witness ==
    /\ Len(orders) = 2
    /\ orders[1].side = BUY
    /\ orders[1].symbol = BTCUSD
    /\ orders[1].qty # orders[1].filled_qty
    /\ orders[2].side = SELL
    /\ orders[2].sim_fee_cash # Zero
    /\ cash # initial_cash

====
